---- MODULE Spec2Model ----
(***************************************************************************)
(* Model of the openexr-rs binding layer: Header / FrameBuffer channel     *)
(* validation, the ScanlineOutputFile write protocol and the InputFile     *)
(* read protocol.  The native OpenEXR library is outside the repository:   *)
(* every native entry point is a nondeterministic success / failure.       *)
(***************************************************************************)
EXTENDS Integers, Sequences, FiniteSets, TLC

VARIABLES
    header_ref,         \* ScanlineOutputFile.header_ref (the file's header)
    scanlines_written,  \* ScanlineOutputFile.scanlines_written
    full_writes,        \* history: successful write_pixels calls so far
    last_write,         \* history: the last write call and what it did
    in_header_ref,      \* InputFile.header_ref (the header of the file read)
    last_read,          \* history: the last read call and what it did
    frame_buffer,       \* a FrameBuffer being filled: dimensions and slices
    last_insert,        \* history: the last insertion call and what it did
    new_header,         \* a Header being set up with its setters
    last_set,           \* history: the last Header setter call
    thread_count,       \* the native library's global worker thread count
    last_thread_call,   \* history: the last set_global_thread_count call
    file_pixels,        \* the samples the native library stored in the file
    written_chunks,     \* history: the successful writes, in call order
    read_data,          \* the destination memory of the last read
    native_heap,        \* the objects of the native library and their deletions
    values,             \* the Rust values alive that hold native handles
    last_native,        \* history: the last native call that can fail
    writer_position,    \* the position of the cursor of the writer T
    stream_writer,      \* the StreamWriter on it (cursor_pos)
    last_callback       \* history: the last callback made by the native side

outputVars == <<header_ref, scanlines_written, full_writes, last_write>>

inputVars == <<in_header_ref, last_read>>

frameBufferVars == <<frame_buffer, last_insert>>

headerVars == <<new_header, last_set>>

threadVars == <<thread_count, last_thread_call>>

pixelVars == <<file_pixels, written_chunks, read_data>>

handleVars == <<native_heap, values, last_native>>

streamVars == <<writer_position, stream_writer, last_callback>>

vars ==
    <<outputVars, inputVars, frameBufferVars, headerVars, threadVars,
      pixelVars, handleVars, streamVars>>

----------------------------------------------------------------------------
(* Bounds *)

MaxHeight == 3
MaxFullWrites == 2
\* The tallest image whose pixel data is followed through a file
MaxRows == 2

\* A value converted to u32 (`as u32`, and u32 arithmetic in a release
\* build).  A negative value wraps to 2^32 + x, which lies above every
\* dimension of the model; TLC's integers stop at 2^31 - 1, so every wrapped
\* value is represented by that largest integer.
U32(x) == IF x < 0 THEN 2147483647 ELSE x

\* i32::MAX and i32::MIN
I32Max == 2147483647

I32Min == -I32Max - 1

\* x + 1 and x - 1 on i32 in a build without overflow checks
wrapping_succ(x) == IF x = I32Max THEN I32Min ELSE x + 1

wrapping_pred(x) == IF x = I32Min THEN I32Max ELSE x - 1

----------------------------------------------------------------------------
(* Channels *)

PixelTypes == {"HALF", "FLOAT"}

Samplings == {1, 2}

\* Option::None for a channel lookup
NoChannel == [pixel_type |-> "NONE", x_sampling |-> 0, y_sampling |-> 0]

\* Channel descriptors: full resolution FLOAT, and one deviation in each field
ChanDescs ==
    {c \in [pixel_type : PixelTypes, x_sampling : Samplings, y_sampling : Samplings] :
        Cardinality({f \in {"t", "x", "y"} :
            \/ f = "t" /\ c.pixel_type # "FLOAT"
            \/ f = "x" /\ c.x_sampling # 1
            \/ f = "y" /\ c.y_sampling # 1}) <= 1}

\* Channel names a FrameBuffer can hold (Rust &str: always valid UTF-8)
FBNames == {"G", "R"}

\* A channel name stored in a file that is not valid UTF-8
InvalidName == "H\\xFF"

AllNames == FBNames \cup {InvalidName}

\* Iteration order of the native channel list (by name)
ChannelOrder == <<"G", InvalidName, "R">>

ValidUtf8(name) == name # InvalidName

----------------------------------------------------------------------------
(* Results *)

OkResult == [ok |-> TRUE, kind |-> "none", chan |-> ""]

Err(kind, chan) == [ok |-> FALSE, kind |-> kind, chan |-> chan]

----------------------------------------------------------------------------
(* Header *)

Origins == {<<0, 0>>, <<-1, -2>>}

HeaderWidths == {2}

\* Header::box2i
box2i(x, y, width, height) ==
    [min |-> <<x, y>>, max |-> <<x + width - 1, y + height - 1>>]

data_window(header) == header.window

data_origin(header) == data_window(header).min

\* (max - min + 1) as u32; a window that spans 2^31 columns or rows makes
\* the sum wrap to i32::MIN
data_dimensions(header) ==
    LET window == data_window(header) IN
    << U32(wrapping_succ(window.max[1] - window.min[1])),
       U32(wrapping_succ(window.max[2] - window.min[2])) >>

\* Header::channels: the declared channels in native iteration order
RECURSIVE channels_from(_, _)
channels_from(header, names) ==
    IF names = <<>> THEN <<>>
    ELSE IF header.channels[Head(names)] # NoChannel
         THEN <<Head(names)>> \o channels_from(header, Tail(names))
         ELSE channels_from(header, Tail(names))

channels(header) == channels_from(header, ChannelOrder)

----------------------------------------------------------------------------
(* FrameBuffer *)

dimensions(framebuffer) == framebuffer.dimensions

origin(framebuffer) == framebuffer.origin

_get_channel(framebuffer, name) ==
    IF name \in DOMAIN framebuffer.channels
    THEN framebuffer.channels[name]
    ELSE NoChannel

FbWidths == {1, 2}

FbHeights == 0 .. (MaxHeight + 1)

\* The channel maps a FrameBuffer can hold: one slice at most per name
FbChannelMaps == [FBNames -> ChanDescs \cup {NoChannel}]

\* FrameBuffer::new followed by the insertion of the channels
FrameBuffer(width, height, org, chans) ==
    [dimensions |-> <<width, height>>, origin |-> org, channels |-> chans]

----------------------------------------------------------------------------
(* Header / FrameBuffer validation *)

\* Mutant: the y subsampling left out of the comparison
validate_channel_no_y(name, h_chan, fb_chan) ==
    IF fb_chan.pixel_type # h_chan.pixel_type
    THEN Err("type_mismatch", name)
    ELSE IF fb_chan.x_sampling # h_chan.x_sampling
         THEN Err("subsampling_mismatch", name)
         ELSE OkResult

\* Mutant: the subsampling compared before the pixel type
validate_channel_sampling_first(name, h_chan, fb_chan) ==
    IF fb_chan.x_sampling # h_chan.x_sampling
       \/ fb_chan.y_sampling # h_chan.y_sampling
    THEN Err("subsampling_mismatch", name)
    ELSE IF fb_chan.pixel_type # h_chan.pixel_type
         THEN Err("type_mismatch", name)
         ELSE OkResult

validate_channel(name, h_chan, fb_chan) ==
    IF fb_chan.pixel_type # h_chan.pixel_type
    THEN Err("type_mismatch", name)
    ELSE IF fb_chan.x_sampling # h_chan.x_sampling
            \/ fb_chan.y_sampling # h_chan.y_sampling
         THEN Err("subsampling_mismatch", name)
         ELSE OkResult

\* ChannelIter::next: the item is an Err when the name is not UTF-8
ChannelIter_next(name) ==
    IF ValidUtf8(name) THEN OkResult ELSE Err("invalid_name", name)

\* Mutant: a channel missing from the FrameBuffer tolerated, as for input
RECURSIVE validate_output_loop_tolerant(_, _, _)
validate_output_loop_tolerant(header, framebuffer, names) ==
    IF names = <<>> THEN OkResult
    ELSE LET name == Head(names)
             item == ChannelIter_next(name)
         IN  IF ~item.ok THEN item
             ELSE IF _get_channel(framebuffer, name) # NoChannel
                  THEN LET r == validate_channel(name, header.channels[name],
                                                 _get_channel(framebuffer, name))
                       IN  IF ~r.ok THEN r
                           ELSE validate_output_loop_tolerant(header, framebuffer,
                                                              Tail(names))
                  ELSE validate_output_loop_tolerant(header, framebuffer, Tail(names))

RECURSIVE validate_output_loop(_, _, _)
validate_output_loop(header, framebuffer, names) ==
    IF names = <<>> THEN OkResult
    ELSE LET name == Head(names)
             item == ChannelIter_next(name)
         IN  IF ~item.ok THEN item
             ELSE IF _get_channel(framebuffer, name) # NoChannel
                  THEN LET r == validate_channel(name, header.channels[name],
                                                 _get_channel(framebuffer, name))
                       IN  IF ~r.ok THEN r
                           ELSE validate_output_loop(header, framebuffer, Tail(names))
                  ELSE Err("missing_channel", name)

validate_framebuffer_for_output(header, framebuffer) ==
    validate_output_loop(header, framebuffer, channels(header))

RECURSIVE validate_input_loop(_, _, _)
validate_input_loop(header, framebuffer, names) ==
    IF names = <<>> THEN OkResult
    ELSE LET name == Head(names)
             item == ChannelIter_next(name)
         IN  IF ~item.ok THEN item
             ELSE IF _get_channel(framebuffer, name) # NoChannel
                  THEN LET r == validate_channel(name, header.channels[name],
                                                 _get_channel(framebuffer, name))
                       IN  IF ~r.ok THEN r
                           ELSE validate_input_loop(header, framebuffer, Tail(names))
                  ELSE validate_input_loop(header, framebuffer, Tail(names))

validate_framebuffer_for_input(header, framebuffer) ==
    validate_input_loop(header, framebuffer, channels(header))

----------------------------------------------------------------------------
(* ScanlineOutputFile *)

NoCalls == <<>>

\* Mutant: the protocol-state check of write_pixels dropped
already_written_dropped(written) == FALSE

\* The protocol-state check of write_pixels
already_written(written) == written # 0

\* Mutant: the completion check of write_pixels_incremental dropped
all_written_dropped(written, header) == FALSE

\* The protocol-state check of write_pixels_incremental
all_written(written, header) == written = data_dimensions(header)[2]

\* image_height - scanlines_written, on u32
remaining_scanlines(written, header) ==
    U32(data_dimensions(header)[2] - written)

\* Mutant: the remaining-scanlines check dropped
too_many_scanlines_dropped(written, header, framebuffer) == FALSE

\* Mutant: the framebuffer compared with the image height, not with what remains
too_many_scanlines_of_image(written, header, framebuffer) ==
    dimensions(framebuffer)[2] > data_dimensions(header)[2]

too_many_scanlines(written, header, framebuffer) ==
    dimensions(framebuffer)[2] > remaining_scanlines(written, header)

\* The counter after the native write of write_pixels returned
written_after_full(written, header, write_err) ==
    IF write_err THEN written ELSE data_dimensions(header)[2]

\* Mutant: the counter advanced before the native result is looked at
written_after_incremental_eager(written, framebuffer, write_err) ==
    U32(written + dimensions(framebuffer)[2])

\* Mutant: the counter counts calls, not scanlines
written_after_incremental_calls(written, framebuffer, write_err) ==
    IF write_err THEN written ELSE U32(written + 1)

\* The counter after the native write of write_pixels_incremental returned
written_after_incremental(written, framebuffer, write_err) ==
    IF write_err THEN written ELSE U32(written + dimensions(framebuffer)[2])

\* What a call did: result, native entry points invoked (in order), the
\* number of scanlines requested from the native writer, the new counter
Outcome(result, calls, requested, written) ==
    [result |-> result, calls |-> calls, requested |-> requested,
     written |-> written]

\* Mutant: the origin check of write_pixels dropped
write_pixels_any_origin(written, header, framebuffer, set_err, write_err) ==
    IF already_written(written)
    THEN Outcome(Err("already_written", ""), NoCalls, 0, written)
    ELSE IF data_dimensions(header) # dimensions(framebuffer)
    THEN Outcome(Err("size_mismatch", ""), NoCalls, 0, written)
    ELSE IF ~validate_framebuffer_for_output(header, framebuffer).ok
    THEN Outcome(validate_framebuffer_for_output(header, framebuffer),
                 NoCalls, 0, written)
    ELSE IF set_err
    THEN Outcome(Err("native", ""), <<"set_framebuffer">>, 0, written)
    ELSE Outcome(IF write_err THEN Err("native", "") ELSE OkResult,
                 <<"set_framebuffer", "write_pixels">>,
                 dimensions(framebuffer)[2],
                 written_after_full(written, header, write_err))

write_pixels(written, header, framebuffer, set_err, write_err) ==
    IF already_written(written)
    THEN Outcome(Err("already_written", ""), NoCalls, 0, written)
    ELSE IF data_dimensions(header) # dimensions(framebuffer)
    THEN Outcome(Err("size_mismatch", ""), NoCalls, 0, written)
    ELSE IF data_origin(header) # origin(framebuffer)
    THEN Outcome(Err("origin_mismatch", ""), NoCalls, 0, written)
    ELSE IF ~validate_framebuffer_for_output(header, framebuffer).ok
    THEN Outcome(validate_framebuffer_for_output(header, framebuffer),
                 NoCalls, 0, written)
    ELSE IF set_err
    THEN Outcome(Err("native", ""), <<"set_framebuffer">>, 0, written)
    ELSE Outcome(IF write_err THEN Err("native", "") ELSE OkResult,
                 <<"set_framebuffer", "write_pixels">>,
                 dimensions(framebuffer)[2],
                 written_after_full(written, header, write_err))

write_pixels_incremental(written, header, framebuffer, set_err, write_err) ==
    IF all_written(written, header)
    THEN Outcome(Err("all_written", ""), NoCalls, 0, written)
    ELSE IF too_many_scanlines(written, header, framebuffer)
    THEN Outcome(Err("too_many_scanlines", ""), NoCalls, 0, written)
    ELSE IF dimensions(framebuffer)[1] # data_dimensions(header)[1]
    THEN Outcome(Err("width_mismatch", ""), NoCalls, 0, written)
    ELSE IF ~validate_framebuffer_for_output(header, framebuffer).ok
    THEN Outcome(validate_framebuffer_for_output(header, framebuffer),
                 NoCalls, 0, written)
    ELSE IF set_err
    THEN Outcome(Err("native", ""), <<"set_framebuffer">>, 0, written)
    ELSE Outcome(IF write_err THEN Err("native", "") ELSE OkResult,
                 <<"set_framebuffer", "write_pixels">>,
                 dimensions(framebuffer)[2],
                 written_after_incremental(written, framebuffer, write_err))

\* The record kept of a call
Call(op, framebuffer, pre, out) ==
    [op |-> op, framebuffer |-> framebuffer, pre |-> pre,
     result |-> out.result, calls |-> out.calls, requested |-> out.requested]

NoFrameBuffer ==
    [dimensions |-> <<0, 0>>, origin |-> <<0, 0>>,
     channels |-> [n \in FBNames |-> NoChannel]]

NoCall == Call("none", NoFrameBuffer, 0, Outcome(OkResult, NoCalls, 0, 0))

\* No file of that kind is open
NoHeader ==
    [window |-> [min |-> <<0, 0>>, max |-> <<-1, -1>>],
     channels |-> [n \in AllNames |-> NoChannel]]

NoRange == <<0, -1>>

\* What a read did: result, native entry points invoked (in order), the
\* scanline range requested from the native reader, the count returned
ReadOutcome(result, calls, range, count) ==
    [result |-> result, calls |-> calls, range |-> range, count |-> count]

\* The record kept of a read: the call, what the native calls answered
\* (<<set_framebuffer failed, read_pixels failed>>) and what the call did
ReadCall(op, starting_scanline, framebuffer, native, out) ==
    [op |-> op, starting_scanline |-> starting_scanline,
     framebuffer |-> framebuffer, native |-> native,
     result |-> out.result, calls |-> out.calls, range |-> out.range,
     count |-> out.count]

NoRead ==
    ReadCall("none", 0, NoFrameBuffer, <<FALSE, FALSE>>,
             ReadOutcome(OkResult, NoCalls, NoRange, 0))

\* No ScanlineOutputFile is open
NoOutputFile ==
    /\ header_ref = NoHeader
    /\ scanlines_written = 0
    /\ full_writes = 0
    /\ last_write = NoCall

\* No InputFile is open
NoInputFile ==
    /\ in_header_ref = NoHeader
    /\ last_read = NoRead

\* No FrameBuffer is being filled
NoFrameBufferBuilt ==
    /\ frame_buffer = NoFrameBuffer
    /\ last_insert = NoCall

\* No Header is being set up
NoHeaderBuilt ==
    /\ new_header = NoHeader
    /\ last_set = NoCall

\* set_global_thread_count is not called
NoThreadCall ==
    /\ thread_count = 0
    /\ last_thread_call = NoCall

\* The destination memory of a read: the samples it holds and whether the
\* native library wrote outside it
Data(memory, stray) == [memory |-> memory, stray |-> stray]

NoData == Data(<<>>, FALSE)

\* No pixel data is moved
NoPixels ==
    /\ file_pixels = <<>>
    /\ written_chunks = <<>>
    /\ read_data = NoData

\* The native library's objects (in order of creation), the handles deleted
\* (in order of deletion) and whether a deleted handle was handed to it
Native(objects, deletions, used_dead) ==
    [objects |-> objects, deletions |-> deletions, used_dead |-> used_dead]

\* The record kept of a native call that can fail: the operation, whether
\* it failed, the handle of the message it allocated (0: none); of a drop:
\* the type of the value dropped
NativeCall(op, failed, message) ==
    [op |-> op, failed |-> failed, message |-> message]

NoNativeCall == NativeCall("none", FALSE, 0)

\* No StreamWriter was constructed
NoStreamWriter == [cursor_pos |-> -1]

\* The record kept of a callback: the function, its argument (n or pos),
\* whether the writer's write_all or seek returned Ok, what the callback
\* returned, and cursor_pos before it
Callback(op, arg, io_ok, ret, pre) ==
    [op |-> op, arg |-> arg, io_ok |-> io_ok, ret |-> ret, pre |-> pre]

NoCallback == Callback("none", 0, TRUE, 0, -1)

\* No stream is followed
NoStream ==
    /\ writer_position = 0
    /\ stream_writer = NoStreamWriter
    /\ last_callback = NoCallback

\* No native object is followed
NoHandles ==
    /\ native_heap = Native(<<>>, <<>>, FALSE)
    /\ values = {}
    /\ last_native = NoNativeCall

\* A header holding the channels of a FrameBuffer's channel map
HeaderChannels(chans) ==
    [n \in AllNames |-> IF n \in FBNames THEN chans[n] ELSE NoChannel]

RChannel == [n \in FBNames |-> IF n = "R" THEN [pixel_type |-> "FLOAT", x_sampling |-> 1, y_sampling |-> 1] ELSE NoChannel]

NoChannels == [n \in FBNames |-> NoChannel]

\* The three ways the two native calls of a write or read can end:
\* <<set_framebuffer failed, write_pixels / read_pixels failed>>
NativeResults == {<<FALSE, FALSE>>, <<TRUE, FALSE>>, <<FALSE, TRUE>>}

\* Framebuffers of every geometry, holding the channel R or no channel
GeometryFrameBuffers ==
    {FrameBuffer(w, h, o, c) :
        w \in FbWidths, h \in FbHeights, o \in Origins,
        c \in {RChannel, NoChannels}}

\* Framebuffers of the width and origin of ChannelsWindow, of one scanline
\* or of the full height, holding any channels
ChannelsWindow == box2i(0, 0, 2, MaxHeight)

ChannelFrameBuffers ==
    {FrameBuffer(2, h, <<0, 0>>, c) : h \in {1, MaxHeight}, c \in FbChannelMaps}

\* ScanlineOutputFile::new returned Ok: an image of any origin and height
\* with the channel R
InitOutput ==
    /\ header_ref \in
          {[window |-> box2i(o[1], o[2], w, h), channels |-> HeaderChannels(RChannel)] :
              o \in Origins, w \in HeaderWidths, h \in 1 .. MaxHeight}
    /\ scanlines_written = 0
    /\ full_writes = 0
    /\ last_write = NoCall
    /\ NoInputFile
    /\ NoFrameBufferBuilt
    /\ NoHeaderBuilt
    /\ NoThreadCall
    /\ NoPixels
    /\ NoHandles
    /\ NoStream

\* ScanlineOutputFile::new returned Ok: an image with any channels
InitChannels ==
    /\ header_ref \in
          {[window |-> ChannelsWindow, channels |-> HeaderChannels(c)] :
              c \in FbChannelMaps}
    /\ scanlines_written = 0
    /\ full_writes = 0
    /\ last_write = NoCall
    /\ NoInputFile
    /\ NoFrameBufferBuilt
    /\ NoHeaderBuilt
    /\ NoThreadCall
    /\ NoPixels
    /\ NoHandles
    /\ NoStream

\* A call of write_pixels with one of the framebuffers fbs
WritePixelsFrom(fbs) ==
    \E framebuffer \in fbs, native \in NativeResults :
        \E out \in {write_pixels(scanlines_written, header_ref, framebuffer,
                                 native[1], native[2])} :
            /\ full_writes < MaxFullWrites
            /\ scanlines_written' = out.written
            /\ full_writes' = IF out.result.ok THEN full_writes + 1 ELSE full_writes
            /\ last_write' = Call("write_pixels", framebuffer, scanlines_written, out)
            /\ UNCHANGED <<header_ref, inputVars, frameBufferVars, headerVars,
                           threadVars, pixelVars, handleVars,
                           streamVars>>

\* A call of write_pixels_incremental with one of the framebuffers fbs
WritePixelsIncrementalFrom(fbs) ==
    \E framebuffer \in fbs, native \in NativeResults :
        \E out \in {write_pixels_incremental(scanlines_written, header_ref,
                                             framebuffer, native[1], native[2])} :
            /\ scanlines_written <= MaxHeight + 1
            /\ scanlines_written' = out.written
            /\ last_write' = Call("write_pixels_incremental", framebuffer,
                                  scanlines_written, out)
            /\ UNCHANGED <<header_ref, full_writes, inputVars, frameBufferVars,
                           headerVars, threadVars, pixelVars,
                           handleVars, streamVars>>

WritePixels == WritePixelsFrom(GeometryFrameBuffers)

WritePixelsIncremental == WritePixelsIncrementalFrom(GeometryFrameBuffers)

NextOutput == WritePixels \/ WritePixelsIncremental

SpecOutput == InitOutput /\ [][NextOutput]_vars

ChannelsWritePixels == WritePixelsFrom(ChannelFrameBuffers)

ChannelsWritePixelsIncremental == WritePixelsIncrementalFrom(ChannelFrameBuffers)

NextChannels == ChannelsWritePixels \/ ChannelsWritePixelsIncremental

SpecChannels == InitChannels /\ [][NextChannels]_vars

----------------------------------------------------------------------------
(* InputFile *)

\* Mutant: the size check of read_pixels dropped
read_pixels_unsized(header, framebuffer, set_err, read_err) ==
    IF ~validate_framebuffer_for_input(header, framebuffer).ok
    THEN ReadOutcome(validate_framebuffer_for_input(header, framebuffer),
                     NoCalls, NoRange, 0)
    ELSE IF set_err
    THEN ReadOutcome(Err("native", ""), <<"set_framebuffer">>, NoRange, 0)
    ELSE ReadOutcome(IF read_err THEN Err("native", "") ELSE OkResult,
                     <<"set_framebuffer", "read_pixels">>,
                     <<data_window(header).min[2], data_window(header).max[2]>>,
                     0)

read_pixels(header, framebuffer, set_err, read_err) ==
    IF data_dimensions(header) # dimensions(framebuffer)
    THEN ReadOutcome(Err("size_mismatch", ""), NoCalls, NoRange, 0)
    ELSE IF ~validate_framebuffer_for_input(header, framebuffer).ok
    THEN ReadOutcome(validate_framebuffer_for_input(header, framebuffer),
                     NoCalls, NoRange, 0)
    ELSE IF set_err
    THEN ReadOutcome(Err("native", ""), <<"set_framebuffer">>, NoRange, 0)
    ELSE ReadOutcome(IF read_err THEN Err("native", "") ELSE OkResult,
                     <<"set_framebuffer", "read_pixels">>,
                     <<data_window(header).min[2], data_window(header).max[2]>>,
                     0)

\* A failed assert! or a panic!: the call unwinds instead of returning
Panic == [ok |-> FALSE, kind |-> "panic", chan |-> ""]

\* Mutant: the scanline count is the framebuffer's height, not clamped to
\* the scanlines left in the image
scanline_read_count_unclamped(header, starting_scanline, framebuffer) ==
    dimensions(framebuffer)[2]

\* min(data_dimensions().1 - starting_scanline, framebuffer.dimensions().1)
scanline_read_count(header, starting_scanline, framebuffer) ==
    IF U32(data_dimensions(header)[2] - starting_scanline) < dimensions(framebuffer)[2]
    THEN U32(data_dimensions(header)[2] - starting_scanline)
    ELSE dimensions(framebuffer)[2]

start_scanline(header, starting_scanline) ==
    data_window(header).min[2] + starting_scanline

end_scanline(header, starting_scanline, framebuffer) ==
    data_window(header).min[2]
        + (starting_scanline
           + scanline_read_count(header, starting_scanline, framebuffer))
        - 1

read_pixels_partial(header, starting_scanline, framebuffer, set_err, read_err) ==
    IF ~(starting_scanline < data_dimensions(header)[2])
    THEN ReadOutcome(Panic, NoCalls, NoRange, 0)
    ELSE IF data_dimensions(header)[1] # dimensions(framebuffer)[1]
    THEN ReadOutcome(Err("width_mismatch", ""), NoCalls, NoRange, 0)
    ELSE IF ~validate_framebuffer_for_input(header, framebuffer).ok
    THEN ReadOutcome(validate_framebuffer_for_input(header, framebuffer),
                     NoCalls, NoRange, 0)
    ELSE IF set_err
    THEN ReadOutcome(Err("native", ""), <<"set_framebuffer">>, NoRange, 0)
    ELSE ReadOutcome(IF read_err THEN Err("native", "") ELSE OkResult,
                     <<"set_framebuffer", "read_pixels">>,
                     <<start_scanline(header, starting_scanline),
                       end_scanline(header, starting_scanline, framebuffer)>>,
                     IF read_err THEN 0
                     ELSE scanline_read_count(header, starting_scanline,
                                              framebuffer))

\* The channel lists a file can hold: its names need not be valid UTF-8
InputChannelMaps ==
    {c \in [AllNames -> ChanDescs \cup {NoChannel}] :
        c[InvalidName] \in {NoChannel, RChannel["R"]}}

InputWindow == box2i(-1, -2, 2, MaxHeight)

\* Framebuffers of the size of InputWindow, narrower or taller, of any channels
InputFrameBuffers ==
    {FrameBuffer(d[1], d[2], <<-1, -2>>, c) :
        d \in {<<2, MaxHeight>>, <<1, MaxHeight>>, <<2, MaxHeight + 1>>},
        c \in FbChannelMaps}

\* InputFile::new or InputFile::from_slice returned Ok
InitInput ==
    /\ in_header_ref \in
          {[window |-> InputWindow, channels |-> c] : c \in InputChannelMaps}
    /\ last_read = NoRead
    /\ NoOutputFile
    /\ NoFrameBufferBuilt
    /\ NoHeaderBuilt
    /\ NoThreadCall
    /\ NoPixels
    /\ NoHandles
    /\ NoStream

\* A call of read_pixels with one of the framebuffers fbs
ReadPixelsFrom(fbs) ==
    \E framebuffer \in fbs, native \in NativeResults :
        \E out \in {read_pixels(in_header_ref, framebuffer, native[1], native[2])} :
            /\ last_read' = ReadCall("read_pixels", 0, framebuffer, native, out)
            /\ UNCHANGED <<in_header_ref, outputVars, frameBufferVars,
                           headerVars, threadVars, pixelVars,
                           handleVars, streamVars>>

ReadPixels == ReadPixelsFrom(InputFrameBuffers)

NextInput == ReadPixels

SpecInput == InitInput /\ [][NextInput]_vars

\* The origins a FrameBufferMut is declared with: the default (0, 0), the
\* data window origins of the files, and origins next to and opposite them
FbOrigins == Origins \cup {<<-2, -3>>, <<1, 2>>}

\* Framebuffers of every geometry and origin, holding the channel R
WindowFrameBuffers ==
    {FrameBuffer(w, h, o, RChannel) :
        w \in FbWidths, h \in FbHeights, o \in FbOrigins}

\* InputFile::new or InputFile::from_slice returned Ok: an image of any
\* origin and height with the channel R
InitWindow ==
    /\ in_header_ref \in
          {[window |-> box2i(o[1], o[2], w, h), channels |-> HeaderChannels(RChannel)] :
              o \in Origins, w \in HeaderWidths, h \in 1 .. MaxHeight}
    /\ last_read = NoRead
    /\ NoOutputFile
    /\ NoFrameBufferBuilt
    /\ NoHeaderBuilt
    /\ NoThreadCall
    /\ NoPixels
    /\ NoHandles
    /\ NoStream

\* The scanlines a partial read is started at: inside the image, at its
\* height and past it
StartingScanlines == 0 .. (MaxHeight + 1)

\* A call of read_pixels_partial with one of the framebuffers fbs
ReadPixelsPartialFrom(fbs) ==
    \E starting_scanline \in StartingScanlines, framebuffer \in fbs,
       native \in NativeResults :
        \E out \in {read_pixels_partial(in_header_ref, starting_scanline,
                                        framebuffer, native[1], native[2])} :
            /\ last_read' = ReadCall("read_pixels_partial", starting_scanline,
                                     framebuffer, native, out)
            /\ UNCHANGED <<in_header_ref, outputVars, frameBufferVars,
                           headerVars, threadVars, pixelVars,
                           handleVars, streamVars>>

WindowReadPixels == ReadPixelsFrom(WindowFrameBuffers)

WindowReadPixelsPartial == ReadPixelsPartialFrom(WindowFrameBuffers)

NextWindow == WindowReadPixels \/ WindowReadPixelsPartial

SpecWindow == InitWindow /\ [][NextWindow]_vars

----------------------------------------------------------------------------
(* Pixel data through a file *)

\* The sample that field `field` of element `element` of the source buffer
\* of the write numbered `colour` holds: every sample of every buffer differs
Sample(colour, element, field) == <<"sample", colour, element, field>>

\* A scanline of the file that was not written yet
Unwritten == <<"unwritten", 0, 0, 0>>

\* What a sample of the destination buffer holds before a read
Blank == <<"blank", 0, 0, 0>>

\* What the native library finds when a slice makes it read outside the
\* source buffer: some bytes of the process, or none (the read faults)
StraySamples == {<<"stray", 0, 0, 0>>, <<"stray", 1, 0, 0>>}

\* The fields of the PixelStruct (f32, f32)
Fields == {1, 2}

\* The channel lists of insert_channels over a buffer of (f32, f32)
ChannelLists == {<<"G", "R">>, <<"R", "G">>}

\* The position of name in names, 0 when it is not listed
field_of(names, name) ==
    IF \E i \in 1 .. Len(names) : names[i] = name
    THEN CHOOSE i \in 1 .. Len(names) : names[i] = name
    ELSE 0

FloatChannel == [pixel_type |-> "FLOAT", x_sampling |-> 1, y_sampling |-> 1]

\* FrameBuffer::new_with_origin(x, y, width, height) followed by
\* insert_channels(names, data) over a buffer of (f32, f32): the channel
\* names[i] is backed by field i of every element
InsertedChannels(width, height, org, names) ==
    [dimensions |-> <<width, height>>, origin |-> org,
     channels |-> [n \in FBNames |->
                      IF field_of(names, n) # 0 THEN FloatChannel ELSE NoChannel],
     fields |-> [n \in FBNames |-> field_of(names, n)]]

\* The number of elements of the buffer behind a frame buffer
element_count(framebuffer) == dimensions(framebuffer)[1] * dimensions(framebuffer)[2]

\* The element of the backing buffer that the native library addresses for
\* the pixel (x, y) of the data window: base + x * x_stride + y * y_stride,
\* where base was moved back by the frame buffer's origin at insertion and by
\* `offset` scanlines by CEXR_FrameBuffer_copy_and_offset_scanlines
element(framebuffer, offset, x, y) ==
    (x - origin(framebuffer)[1])
        + (y - origin(framebuffer)[2] - offset) * dimensions(framebuffer)[1]

\* The pixel of the data window that the file keeps at <<name, column, row>>
pixel_x(header, p) == data_window(header).min[1] + p[2]

pixel_y(header, p) == data_window(header).min[2] + p[3]

\* CEXR_OutputFile_write_pixels: the scanlines first .. first + n - 1 of
\* every channel are fetched through the slices of the frame buffer
CEXR_OutputFile_write_pixels(pixels, header, framebuffer, offset, first, n, colour, stray) ==
    [p \in DOMAIN pixels |->
        IF /\ first <= pixel_y(header, p)
           /\ pixel_y(header, p) < first + n
           /\ framebuffer.fields[p[1]] # 0
        THEN IF element(framebuffer, offset, pixel_x(header, p), pixel_y(header, p))
                    \in 0 .. (element_count(framebuffer) - 1)
             THEN Sample(colour,
                         element(framebuffer, offset, pixel_x(header, p),
                                 pixel_y(header, p)),
                         framebuffer.fields[p[1]])
             ELSE stray
        ELSE pixels[p]]

\* The samples of the file a read of the scanlines first .. last stores
\* through the slices of the frame buffer
read_samples(pixels, header, framebuffer, first, last) ==
    {p \in DOMAIN pixels :
        /\ first <= pixel_y(header, p)
        /\ pixel_y(header, p) <= last
        /\ framebuffer.fields[p[1]] # 0}

\* The one pixel <<name, column, row>> of the data window whose sample the
\* slices put at field m[2] of element m[1]: element is one to one on the
\* columns and scanlines of the window
pixel_at(header, framebuffer, offset, m) ==
    << CHOOSE n \in FBNames :
           framebuffer.fields[n] = m[2] \/ \A k \in FBNames : framebuffer.fields[k] # m[2],
       (m[1] - (data_window(header).min[1] - origin(framebuffer)[1]))
           % dimensions(framebuffer)[1],
       ((m[1] - (data_window(header).min[1] - origin(framebuffer)[1]))
           \div dimensions(framebuffer)[1])
           + origin(framebuffer)[2] + offset - data_window(header).min[2] >>

\* The fresh destination buffer of (f32, f32) behind a FrameBufferMut
NewData(framebuffer) ==
    Data([m \in (0 .. (element_count(framebuffer) - 1)) \X Fields |-> Blank], FALSE)

\* CEXR_InputFile_read_pixels: every sample of the scanlines first .. last
\* is stored where the slices of the frame buffer point
CEXR_InputFile_read_pixels(data, pixels, header, framebuffer, offset, first, last) ==
    Data([m \in DOMAIN data.memory |->
             IF \E p \in read_samples(pixels, header, framebuffer, first, last) :
                   p = pixel_at(header, framebuffer, offset, m)
             THEN pixels[pixel_at(header, framebuffer, offset, m)]
             ELSE data.memory[m]],
         \E p \in read_samples(pixels, header, framebuffer, first, last) :
             element(framebuffer, offset, pixel_x(header, p), pixel_y(header, p))
                 \notin 0 .. (element_count(framebuffer) - 1))

\* The record kept of a successful write: the call, its frame buffer and
\* the value of scanlines_written it found
Chunk(op, framebuffer, first) ==
    [op |-> op, framebuffer |-> framebuffer, first |-> first]

\* Frame buffers of the image width with the channels G and R in either
\* field order, of any height and of the origins of the files
RoundTripFrameBuffers ==
    {InsertedChannels(2, h, o, names) :
        h \in 1 .. (MaxRows + 1), o \in Origins, names \in ChannelLists}

\* The frame buffers written from: the channels G and R in that field order
RoundTripSources ==
    {InsertedChannels(2, h, o, <<"G", "R">>) :
        h \in 1 .. (MaxRows + 1), o \in Origins}

\* ScanlineOutputFile::new returned Ok: an image of any origin and height
\* with the channels G and R, no scanline written
InitRoundTrip ==
    /\ \E o \in Origins, h \in 1 .. MaxRows :
          /\ header_ref = [window |-> box2i(o[1], o[2], 2, h),
                           channels |-> HeaderChannels([n \in FBNames |-> FloatChannel])]
          /\ file_pixels = [p \in FBNames \X (0 .. 1) \X (0 .. (h - 1)) |-> Unwritten]
    /\ scanlines_written = 0
    /\ full_writes = 0
    /\ last_write = NoCall
    /\ written_chunks = <<>>
    /\ read_data = NoData
    /\ NoInputFile
    /\ NoFrameBufferBuilt
    /\ NoHeaderBuilt
    /\ NoThreadCall
    /\ NoHandles
    /\ NoStream

\* write_pixels on the file that is followed: a successful call stores the
\* scanlines of the image
RoundTripWritePixels ==
    /\ header_ref # NoHeader
    /\ full_writes < MaxFullWrites
    /\ \E framebuffer \in RoundTripSources, native \in NativeResults,
          stray \in StraySamples :
        \E out \in {write_pixels(scanlines_written, header_ref, framebuffer,
                                 native[1], native[2])} :
            /\ scanlines_written' = out.written
            /\ full_writes' = IF out.result.ok THEN full_writes + 1 ELSE full_writes
            /\ last_write' = Call("write_pixels", framebuffer, scanlines_written, out)
            /\ file_pixels' =
                  IF out.result.ok
                  THEN CEXR_OutputFile_write_pixels(
                           file_pixels, header_ref, framebuffer, 0,
                           data_window(header_ref).min[2] + scanlines_written,
                           out.requested, Len(written_chunks) + 1, stray)
                  ELSE file_pixels
            /\ written_chunks' =
                  IF out.result.ok
                  THEN Append(written_chunks,
                              Chunk("write_pixels", framebuffer, scanlines_written))
                  ELSE written_chunks
            /\ UNCHANGED <<header_ref, read_data, inputVars, frameBufferVars,
                           headerVars, threadVars,
                           handleVars, streamVars>>

\* write_pixels_incremental on the file that is followed: the frame buffer
\* is handed over moved by scanlines_written scanlines
RoundTripWritePixelsIncremental ==
    /\ header_ref # NoHeader
    /\ \E framebuffer \in RoundTripSources, native \in NativeResults,
          stray \in StraySamples :
        \E out \in {write_pixels_incremental(scanlines_written, header_ref,
                                             framebuffer, native[1], native[2])} :
            /\ scanlines_written' = out.written
            /\ last_write' = Call("write_pixels_incremental", framebuffer,
                                  scanlines_written, out)
            /\ file_pixels' =
                  IF out.result.ok
                  THEN CEXR_OutputFile_write_pixels(
                           file_pixels, header_ref, framebuffer, scanlines_written,
                           data_window(header_ref).min[2] + scanlines_written,
                           out.requested, Len(written_chunks) + 1, stray)
                  ELSE file_pixels
            /\ written_chunks' =
                  IF out.result.ok
                  THEN Append(written_chunks,
                              Chunk("write_pixels_incremental", framebuffer,
                                    scanlines_written))
                  ELSE written_chunks
            /\ UNCHANGED <<header_ref, full_writes, read_data, inputVars,
                           frameBufferVars, headerVars, threadVars,
                           handleVars, streamVars>>

\* The ScanlineOutputFile is dropped with every scanline written and
\* InputFile::from_slice opens the bytes it produced
FromSlice ==
    /\ header_ref # NoHeader
    /\ scanlines_written = data_dimensions(header_ref)[2]
    /\ in_header_ref' = header_ref
    /\ header_ref' = NoHeader
    /\ scanlines_written' = 0
    /\ full_writes' = 0
    /\ last_write' = NoCall
    /\ UNCHANGED <<last_read, frameBufferVars, headerVars, threadVars,
                   pixelVars, handleVars, streamVars>>

\* read_pixels on the file: a successful call fills the destination buffer
\* (the native calls succeed here; their failures are followed in SpecInput
\* and SpecWindow)
RoundTripReadPixels ==
    /\ in_header_ref # NoHeader
    /\ \E framebuffer \in RoundTripFrameBuffers, native \in {<<FALSE, FALSE>>} :
        \E out \in {read_pixels(in_header_ref, framebuffer, native[1], native[2])} :
            /\ last_read' = ReadCall("read_pixels", 0, framebuffer, native, out)
            /\ read_data' =
                  IF out.result.ok
                  THEN CEXR_InputFile_read_pixels(
                           NewData(framebuffer), file_pixels, in_header_ref,
                           framebuffer, 0, out.range[1], out.range[2])
                  ELSE NewData(framebuffer)
            /\ UNCHANGED <<in_header_ref, file_pixels, written_chunks,
                           outputVars, frameBufferVars, headerVars, threadVars,
                           handleVars, streamVars>>

\* read_pixels_partial on the file: the frame buffer is handed over moved
\* by starting_scanline scanlines
RoundTripReadPixelsPartial ==
    /\ in_header_ref # NoHeader
    /\ \E starting_scanline \in 0 .. MaxRows,
          framebuffer \in RoundTripFrameBuffers, native \in {<<FALSE, FALSE>>} :
        \E out \in {read_pixels_partial(in_header_ref, starting_scanline,
                                        framebuffer, native[1], native[2])} :
            /\ last_read' = ReadCall("read_pixels_partial", starting_scanline,
                                     framebuffer, native, out)
            /\ read_data' =
                  IF out.result.ok
                  THEN CEXR_InputFile_read_pixels(
                           NewData(framebuffer), file_pixels, in_header_ref,
                           framebuffer, starting_scanline,
                           out.range[1], out.range[2])
                  ELSE NewData(framebuffer)
            /\ UNCHANGED <<in_header_ref, file_pixels, written_chunks,
                           outputVars, frameBufferVars, headerVars, threadVars,
                           handleVars, streamVars>>

NextRoundTrip ==
    \/ RoundTripWritePixels
    \/ RoundTripWritePixelsIncremental
    \/ FromSlice
    \/ RoundTripReadPixels
    \/ RoundTripReadPixelsPartial

SpecRoundTrip == InitRoundTrip /\ [][NextRoundTrip]_vars

----------------------------------------------------------------------------
(* Machine integers beyond 2^31 *)

\* usize is 64 bits wide.  2^32 lies beyond TLC's integers, so a byte count
\* or an element count is written <<c2, c1, c0>> for
\* c2 * 2^64 + c1 * 2^32 + c0, with coefficients far below 2^31 in absolute
\* value; the arithmetic on such triples is exact, and a usize has c2 = 0.
Big(n) == <<0, 0, n>>

\* 2^32, the smallest usize whose square does not fit a usize
UsizeHalf == <<0, 1, 0>>

BigAdd(a, b) == <<a[1] + b[1], a[2] + b[2], a[3] + b[3]>>

BigSub(a, b) == <<a[1] - b[1], a[2] - b[2], a[3] - b[3]>>

\* The product of two values of which at most one reaches 2^64
BigMul(a, b) ==
    <<a[1] * b[3] + a[2] * b[2] + a[3] * b[1],
      a[2] * b[3] + a[3] * b[2],
      a[3] * b[3]>>

BigLess(a, b) ==
    \/ a[1] < b[1]
    \/ a[1] = b[1] /\ a[2] < b[2]
    \/ a[1] = b[1] /\ a[2] = b[2] /\ a[3] < b[3]

\* a * b on usize: the product does not fit 64 bits
overflows(a, b) == BigMul(a, b)[1] # 0

\* a * b on usize in a build without overflow checks: the low 64 bits
wrapping_mul(a, b) == <<0, BigMul(a, b)[2], BigMul(a, b)[3]>>

----------------------------------------------------------------------------
(* FrameBuffer insertion *)

MaxInserts == 1

\* mem::size_of::<T>() of a PixelData type: f16 is 2 bytes, f32 and u32 are 4
size_of(pixel_type) == IF pixel_type = "HALF" THEN 2 ELSE 4

\* A channel name holding a NUL byte
NulName == "B\\0"

SliceNames == {"B", "G", "R", NulName}

\* A slice: the sample type, the byte offset of its first sample from the
\* start of the backing buffer, the strides in bytes, and the length in
\* bytes of the backing buffer
Slice(type_, base, stride, bytes) ==
    [pixel_type |-> type_, base |-> base, stride |-> stride, bytes |-> bytes]

NoSlice == Slice("NONE", Big(0), <<Big(0), Big(0)>>, Big(0))

\* An empty frame buffer of frame_buffer.rs ("FrameBuffer", dimensions in
\* u32) or of lib.rs ("lib::FrameBuffer", dimensions in usize).  The frame
\* buffer of lib.rs keeps the list of its backing buffers (their lengths in
\* bytes) and, with every slice, the index of its buffer in that list.
NewFrameBuffer(kind, width, height) ==
    [kind |-> kind, dimensions |-> <<width, height>>,
     slices |-> [n \in SliceNames |-> NoSlice],
     index |-> [n \in SliceNames |-> 0],
     buffers |-> <<>>]

\* What an insertion did: the frame buffer it leaves and its result
Inserted(fb, result) == [frame_buffer |-> fb, result |-> result]

\* The PixelStruct types: f32, (f16, f32) in both field orders the compiler
\* may lay it out in, and [f16; 2]
PixelStructs ==
    {[fields |-> <<"FLOAT">>, offsets |-> <<0>>, size |-> 4],
     [fields |-> <<"HALF", "FLOAT">>, offsets |-> <<0, 4>>, size |-> 8],
     [fields |-> <<"HALF", "FLOAT">>, offsets |-> <<4, 0>>, size |-> 8],
     [fields |-> <<"HALF", "HALF">>, offsets |-> <<0, 2>>, size |-> 4]}

channel_count(T) == Len(T.fields)

channel(T, i) == <<T.fields[i], T.offsets[i]>>

\* names.iter().zip(T::channels()): as long as the shorter of the two
zip(names, T) ==
    [i \in 1 .. (IF Len(names) < channel_count(T) THEN Len(names)
                 ELSE channel_count(T)) |-> <<names[i], channel(T, i)>>]

\* CString::new(name).unwrap() panics on a NUL byte; the slice replaces any
\* slice of the same name
insert_raw(fb, name, type_, base, stride, bytes) ==
    IF name = NulName
    THEN Inserted(fb, Panic)
    ELSE Inserted([fb EXCEPT !.slices[name] = Slice(type_, base, stride, bytes)],
                  OkResult)

\* Mutant: only a buffer that is too small is refused
data_cannot_back_too_small(fb, data_len) ==
    BigLess(Big(data_len), BigMul(dimensions(fb)[1], dimensions(fb)[2]))

\* data.len() != self.dimensions.0 as usize * self.dimensions.1 as usize
\* (a product of two u32 fits a usize)
data_cannot_back(fb, data_len) ==
    Big(data_len) # BigMul(dimensions(fb)[1], dimensions(fb)[2])

insert_channel(fb, T, name, data_len) ==
    IF data_cannot_back(fb, data_len)
    THEN Inserted(fb, Panic)
    ELSE insert_raw(fb, name, T, Big(0),
                    <<Big(size_of(T)), BigMul(dimensions(fb)[1], Big(size_of(T)))>>,
                    Big(data_len * size_of(T)))

RECURSIVE insert_channels_loop(_, _, _, _, _)
insert_channels_loop(fb, T, names, data_len, i) ==
    IF i > Len(zip(names, T))
    THEN Inserted(fb, OkResult)
    ELSE IF ~insert_raw(fb, zip(names, T)[i][1], zip(names, T)[i][2][1],
                        Big(zip(names, T)[i][2][2]),
                        <<Big(T.size), BigMul(dimensions(fb)[1], Big(T.size))>>,
                        Big(data_len * T.size)).result.ok
    THEN Inserted(fb, Panic)
    ELSE insert_channels_loop(
             insert_raw(fb, zip(names, T)[i][1], zip(names, T)[i][2][1],
                        Big(zip(names, T)[i][2][2]),
                        <<Big(T.size), BigMul(dimensions(fb)[1], Big(T.size))>>,
                        Big(data_len * T.size)).frame_buffer,
             T, names, data_len, i + 1)

insert_channels(fb, T, names, data_len) ==
    IF data_cannot_back(fb, data_len)
    THEN Inserted(fb, Panic)
    ELSE insert_channels_loop(fb, T, names, data_len, 1)

\* self.dimensions.0 * self.dimensions.1 on usize: a build with overflow
\* checks panics when the product does not fit, any other build wraps
too_small(fb, elements) ==
    BigLess(Big(elements), wrapping_mul(dimensions(fb)[1], dimensions(fb)[2]))

\* The last position among the first len entries of names that holds n
last_index(names, n, len) ==
    CHOOSE i \in 1 .. len :
        /\ names[i] = n
        /\ \A j \in 1 .. len : names[j] = n => j <= i

\* self.channels.insert(name, (self.buffers.len(), ..)) for the names of a
\* call, then self.buffers.push(data)
push_buffer(fb, names, bytes) ==
    [fb EXCEPT !.index = [n \in SliceNames |->
                             IF \E i \in 1 .. Len(names) : names[i] = n
                             THEN Len(fb.buffers)
                             ELSE fb.index[n]],
               !.buffers = Append(fb.buffers, bytes)]

\* The slices of the enumerated name list over one buffer of T: the last
\* entry of a name is the one the map keeps
interleaved_slices(fb, T, names, data_len) ==
    [n \in SliceNames |->
        IF \E i \in 1 .. Len(names) : names[i] = n
        THEN Slice(T,
                   Big(size_of(T) * (last_index(names, n, Len(names)) - 1)),
                   <<Big(size_of(T)),
                     wrapping_mul(wrapping_mul(Big(size_of(T)), dimensions(fb)[1]),
                                  Big(Len(names)))>>,
                   Big(data_len * size_of(T)))
        ELSE fb.slices[n]]

add_interleaved_slice(fb, T, data_len, names, overflow_checks) ==
    IF Len(names) = 0
    THEN Inserted(fb, Panic)
    ELSE IF overflow_checks /\ overflows(dimensions(fb)[1], dimensions(fb)[2])
    THEN Inserted(fb, Panic)
    ELSE IF too_small(fb, data_len \div Len(names))
    THEN Inserted(fb, Panic)
    ELSE Inserted(push_buffer([fb EXCEPT !.slices =
                                   interleaved_slices(fb, T, names, data_len)],
                              names, Big(data_len * size_of(T))),
                  OkResult)

add_slice(fb, T, data_len, name, overflow_checks) ==
    IF overflow_checks /\ overflows(dimensions(fb)[1], dimensions(fb)[2])
    THEN Inserted(fb, Panic)
    ELSE IF too_small(fb, data_len)
    THEN Inserted(fb, Panic)
    ELSE add_interleaved_slice(fb, T, data_len, <<name>>, overflow_checks)

\* The EXRPixelStruct types of lib.rs: (f32, f32) and (f32, f32, f32)
EXRPixelStructs ==
    {[fields |-> <<"FLOAT", "FLOAT">>, offsets |-> <<0, 4>>, size |-> 8],
     [fields |-> <<"FLOAT", "FLOAT", "FLOAT">>, offsets |-> <<0, 4, 8>>,
      size |-> 12]}

\* The slices of the name list zipped with the channel descriptions of T,
\* over one buffer of T
structured_slices(fb, T, names, data_len) ==
    [n \in SliceNames |->
        IF \E i \in DOMAIN zip(names, T) : names[i] = n
        THEN Slice(channel(T, last_index(names, n, Len(zip(names, T))))[1],
                   Big(channel(T, last_index(names, n, Len(zip(names, T))))[2]),
                   <<Big(T.size), wrapping_mul(Big(T.size), dimensions(fb)[1])>>,
                   Big(data_len * T.size))
        ELSE fb.slices[n]]

add_structured_slice(fb, T, data_len, names, overflow_checks) ==
    IF overflow_checks /\ overflows(dimensions(fb)[1], dimensions(fb)[2])
    THEN Inserted(fb, Panic)
    ELSE IF too_small(fb, data_len)
    THEN Inserted(fb, Panic)
    ELSE IF Len(names) = 0
    THEN Inserted(fb, Panic)
    ELSE IF Len(names) # channel_count(T)
    THEN Inserted(fb, Panic)
    ELSE IF \E i \in 1 .. channel_count(T) :
                size_of(channel(T, i)[1]) + channel(T, i)[2] > T.size
    THEN Inserted(fb, Panic)
    ELSE Inserted(push_buffer([fb EXCEPT !.slices =
                                   structured_slices(fb, T, names, data_len)],
                              names, Big(data_len * T.size)),
                  OkResult)

\* The slices of a list of (name, SliceDescription) pairs: the last entry of
\* a name is the one the map keeps
raw_slices(fb, descriptions) ==
    [n \in SliceNames |->
        IF \E i \in 1 .. Len(descriptions) : descriptions[i][1] = n
        THEN descriptions[CHOOSE i \in 1 .. Len(descriptions) :
                              /\ descriptions[i][1] = n
                              /\ \A j \in 1 .. Len(descriptions) :
                                     descriptions[j][1] = n => j <= i][2]
        ELSE fb.slices[n]]

\* The first components of a list of pairs
names_of(descriptions) ==
    [i \in 1 .. Len(descriptions) |-> descriptions[i][1]]

\* Mutant: the duplicates are looked for while the channels are inserted,
\* so the descriptions before the duplicate stay registered
add_raw_slice_checking_late(fb, data_len, descriptions) ==
    IF \E i \in 1 .. Len(descriptions) : fb.slices[descriptions[i][1]] # NoSlice
    THEN Inserted([fb EXCEPT !.slices =
                      raw_slices(fb, SubSeq(descriptions, 1,
                          (CHOOSE i \in 1 .. Len(descriptions) :
                              /\ fb.slices[descriptions[i][1]] # NoSlice
                              /\ \A j \in 1 .. (i - 1) :
                                     fb.slices[descriptions[j][1]] = NoSlice) - 1))],
                  Panic)
    ELSE Inserted(push_buffer([fb EXCEPT !.slices = raw_slices(fb, descriptions)],
                              names_of(descriptions), Big(data_len)),
                  OkResult)

\* add_raw_slice: a name that is registered already makes the call panic
\* before anything is inserted
add_raw_slice(fb, data_len, descriptions) ==
    IF \E i \in 1 .. Len(descriptions) : fb.slices[descriptions[i][1]] # NoSlice
    THEN Inserted(fb, Panic)
    ELSE Inserted(push_buffer([fb EXCEPT !.slices = raw_slices(fb, descriptions)],
                              names_of(descriptions), Big(data_len)),
                  OkResult)

\* The record kept of an insertion: the call, the slices before it, its result
Insertion(op, T, names, data_len, overflow_checks, pre, result, seq) ==
    [op |-> op, T |-> T, names |-> names, data_len |-> data_len,
     overflow_checks |-> overflow_checks, pre |-> pre, result |-> result,
     seq |-> seq]

NoInsert ==
    Insertion("none", "NONE", <<>>, 0, FALSE, [n \in SliceNames |-> NoSlice],
              OkResult, 0)

\* The names lists passed: empty, one name, two names, a repeated name, a
\* name with a NUL byte in second place, three names
NameLists ==
    {<<>>, <<"R">>, <<"G", "R">>, <<"R", "R">>, <<"G", NulName>>,
     <<"B", "G", "R">>}

\* Buffer lengths around the elements needed for n channels: one short,
\* exact, one over; a buffer of 2^32 elements or more is not built
DataLens(fb, n) ==
    IF wrapping_mul(wrapping_mul(dimensions(fb)[1], dimensions(fb)[2]), Big(n))[2] = 0
    THEN {wrapping_mul(wrapping_mul(dimensions(fb)[1], dimensions(fb)[2]),
                       Big(n))[3] + d : d \in {-1, 0, 1}} \cap Nat
    ELSE {0, 1}

\* FrameBuffer::new / FrameBufferMut::new of frame_buffer.rs with u32
\* dimensions, or FrameBuffer::new of lib.rs with usize dimensions
InitFrameBuffer ==
    /\ frame_buffer \in
          {NewFrameBuffer("FrameBuffer", Big(w), Big(h)) :
              w \in FbWidths, h \in 0 .. 2}
          \cup {NewFrameBuffer("lib::FrameBuffer", w, h) :
                  w \in {Big(1), Big(2), UsizeHalf},
                  h \in {Big(1), Big(2), UsizeHalf}}
    /\ last_insert = NoInsert
    /\ NoOutputFile
    /\ NoInputFile
    /\ NoHeaderBuilt
    /\ NoThreadCall
    /\ NoPixels
    /\ NoHandles
    /\ NoStream

\* The insertion op with result out was called
Insert(op, T, names, data_len, overflow_checks, out) ==
    /\ last_insert.seq < MaxInserts
    /\ frame_buffer' = out.frame_buffer
    /\ last_insert' = Insertion(op, T, names, data_len, overflow_checks,
                                frame_buffer.slices, out.result,
                                last_insert.seq + 1)
    /\ UNCHANGED <<outputVars, inputVars, headerVars, threadVars, pixelVars,
                           handleVars, streamVars>>

InsertChannel ==
    /\ frame_buffer.kind = "FrameBuffer"
    /\ \E T \in PixelTypes, name \in {"R", NulName},
          data_len \in DataLens(frame_buffer, 1) :
          Insert("insert_channel", T, <<name>>, data_len, FALSE,
                 insert_channel(frame_buffer, T, name, data_len))

InsertChannels ==
    /\ frame_buffer.kind = "FrameBuffer"
    /\ \E T \in PixelStructs, names \in NameLists,
          data_len \in DataLens(frame_buffer, 1) :
          Insert("insert_channels", T, names, data_len, FALSE,
                 insert_channels(frame_buffer, T, names, data_len))

AddSlice ==
    /\ frame_buffer.kind = "lib::FrameBuffer"
    /\ \E name \in {"G", "R"}, data_len \in DataLens(frame_buffer, 1),
          overflow_checks \in BOOLEAN :
          Insert("add_slice", "FLOAT", <<name>>, data_len, overflow_checks,
                 add_slice(frame_buffer, "FLOAT", data_len, name, overflow_checks))

AddInterleavedSlice ==
    /\ frame_buffer.kind = "lib::FrameBuffer"
    /\ \E names \in NameLists, overflow_checks \in BOOLEAN :
          \E data_len \in DataLens(frame_buffer, Len(names)) :
              Insert("add_interleaved_slice", "FLOAT", names, data_len,
                     overflow_checks,
                     add_interleaved_slice(frame_buffer, "FLOAT", data_len,
                                           names, overflow_checks))

AddStructuredSlice ==
    /\ frame_buffer.kind = "lib::FrameBuffer"
    /\ \E T \in EXRPixelStructs, names \in NameLists,
          data_len \in DataLens(frame_buffer, 1), overflow_checks \in BOOLEAN :
          Insert("add_structured_slice", T, names, data_len, overflow_checks,
                 add_structured_slice(frame_buffer, T, data_len, names,
                                      overflow_checks))

NextFrameBuffer ==
    \/ InsertChannel
    \/ InsertChannels
    \/ AddSlice
    \/ AddInterleavedSlice
    \/ AddStructuredSlice

SpecFrameBuffer == InitFrameBuffer /\ [][NextFrameBuffer]_vars

\* The bound on the insertions into the frame buffer of lib.rs that is
\* followed through several calls
MaxSlices == 2

\* The names lists passed to the insertions that are followed through
\* several calls: one name, two names, a repeated name
SliceLists == {<<"R">>, <<"G", "R">>, <<"R", "R">>}

\* The SliceDescription of a plane of f32 over the whole buffer
RawDescription(fb) ==
    Slice("FLOAT", Big(0), <<Big(4), BigMul(Big(4), dimensions(fb)[1])>>,
          BigMul(Big(4), BigMul(dimensions(fb)[1], dimensions(fb)[2])))

\* The descriptions lists passed to add_raw_slice: one name, two names, a
\* repeated name, a new name followed by one that the other lists register
RawLists(fb) ==
    {[i \in 1 .. Len(names) |-> <<names[i], RawDescription(fb)>>] :
        names \in {<<"R">>, <<"G", "R">>, <<"B", "B">>, <<"B", "R">>}}

\* FrameBuffer::new of lib.rs for an image of one or two pixels
InitSlices ==
    /\ frame_buffer \in
          {NewFrameBuffer("lib::FrameBuffer", Big(w), Big(1)) : w \in {1, 2}}
    /\ last_insert = NoInsert
    /\ NoOutputFile
    /\ NoInputFile
    /\ NoHeaderBuilt
    /\ NoThreadCall
    /\ NoPixels
    /\ NoHandles
    /\ NoStream

\* The insertion op with result out was called on that frame buffer
InsertSlice(op, T, names, data_len, out) ==
    /\ last_insert.seq < MaxSlices
    /\ frame_buffer' = out.frame_buffer
    /\ last_insert' = Insertion(op, T, names, data_len, FALSE,
                                frame_buffer.slices, out.result,
                                last_insert.seq + 1)
    /\ UNCHANGED <<outputVars, inputVars, headerVars, threadVars, pixelVars,
                           handleVars, streamVars>>

\* The dimensions are small here: no product overflows in any build
SlicesAddSlice ==
    \E name \in {"G", "R"}, data_len \in DataLens(frame_buffer, 1) :
        InsertSlice("add_slice", "FLOAT", <<name>>, data_len,
                    add_slice(frame_buffer, "FLOAT", data_len, name, FALSE))

SlicesAddInterleavedSlice ==
    \E names \in SliceLists :
        \E data_len \in DataLens(frame_buffer, Len(names)) :
            InsertSlice("add_interleaved_slice", "FLOAT", names, data_len,
                        add_interleaved_slice(frame_buffer, "FLOAT", data_len,
                                              names, FALSE))

SlicesAddStructuredSlice ==
    \E T \in EXRPixelStructs, names \in SliceLists,
       data_len \in DataLens(frame_buffer, 1) :
        InsertSlice("add_structured_slice", T, names, data_len,
                    add_structured_slice(frame_buffer, T, data_len, names, FALSE))

AddRawSlice ==
    \E descriptions \in RawLists(frame_buffer) :
        InsertSlice("add_raw_slice", "FLOAT", names_of(descriptions),
                    RawDescription(frame_buffer).bytes[3],
                    add_raw_slice(frame_buffer,
                                  RawDescription(frame_buffer).bytes[3],
                                  descriptions))

NextSlices ==
    \/ SlicesAddSlice
    \/ SlicesAddInterleavedSlice
    \/ SlicesAddStructuredSlice
    \/ AddRawSlice

SpecSlices == InitSlices /\ [][NextSlices]_vars

----------------------------------------------------------------------------
(* Header setters *)

MaxSets == 2

\* A u32 argument, which may lie beyond TLC's integers, is written
\* <<hi, lo>> for hi * 2^31 + lo
as_i32(u) == IF u[1] = 0 THEN u[2] ELSE (u[2] - I32Max) - 1

\* Header::new: both windows ((0, 0), (1, 1)), no channel, INCREASING_Y, PIZ
NewHeader ==
    [display_window |-> [min |-> <<0, 0>>, max |-> <<1, 1>>],
     window |-> [min |-> <<0, 0>>, max |-> <<1, 1>>],
     channels |-> [n \in AllNames |-> NoChannel],
     line_order |-> "INCREASING_Y",
     compression |-> "PIZ_COMPRESSION"]

\* What a setter did: the header it leaves and whether it returned
SetOutcome(header, result) == [header |-> header, result |-> result]

\* The window set_resolution builds: `width as i32 - 1`, `height as i32 - 1`
resolution_window(width, height) ==
    [min |-> <<0, 0>>,
     max |-> <<wrapping_pred(as_i32(width)), wrapping_pred(as_i32(height))>>]

\* Mutant: set_resolution sets the data window only
set_resolution_data_only(header, width, height, overflow_checks) ==
    IF overflow_checks /\ (as_i32(width) = I32Min \/ as_i32(height) = I32Min)
    THEN SetOutcome(header, Panic)
    ELSE SetOutcome([header EXCEPT !.window = resolution_window(width, height)],
                    OkResult)

\* A build with overflow checks panics on `i32::MIN - 1`, any other wraps
set_resolution(header, width, height, overflow_checks) ==
    IF overflow_checks /\ (as_i32(width) = I32Min \/ as_i32(height) = I32Min)
    THEN SetOutcome(header, Panic)
    ELSE SetOutcome([header EXCEPT
                        !.display_window = resolution_window(width, height),
                        !.window = resolution_window(width, height)],
                    OkResult)

set_display_window(header, window) ==
    IF ~(window.min[1] < window.max[1]) \/ ~(window.min[2] < window.max[2])
    THEN SetOutcome(header, Panic)
    ELSE SetOutcome([header EXCEPT !.display_window = window], OkResult)

set_data_window(header, window) ==
    IF ~(window.min[1] < window.max[1]) \/ ~(window.min[2] < window.max[2])
    THEN SetOutcome(header, Panic)
    ELSE SetOutcome([header EXCEPT !.window = window], OkResult)

set_line_order(header, line_order) ==
    SetOutcome([header EXCEPT !.line_order = line_order], OkResult)

set_compression(header, compression) ==
    SetOutcome([header EXCEPT !.compression = compression], OkResult)

\* The record kept of a setter call: the call, the header before it, its result
Setting(op, args, overflow_checks, pre, result, seq) ==
    [op |-> op, args |-> args, overflow_checks |-> overflow_checks,
     pre |-> pre, result |-> result, seq |-> seq]

NoSet == Setting("none", <<>>, FALSE, NewHeader, OkResult, 0)

\* The widths passed to set_resolution: 1, 2, i32::MAX, 2^31 and 2^31 + 1
ResolutionWidths == {<<0, 1>>, <<0, 2>>, <<0, I32Max>>, <<1, 0>>, <<1, 1>>}

\* The heights passed to set_resolution: 1, 2 and 2^31
ResolutionHeights == {<<0, 1>>, <<0, 2>>, <<1, 0>>}

\* The sizes of the windows passed to box2i
WindowSizes == {1, 2, 3}

\* Header::new returned
InitHeader ==
    /\ new_header = NewHeader
    /\ last_set = NoSet
    /\ NoOutputFile
    /\ NoInputFile
    /\ NoFrameBufferBuilt
    /\ NoThreadCall
    /\ NoPixels
    /\ NoHandles
    /\ NoStream

\* The setter op with outcome out was called
Set(op, args, overflow_checks, out) ==
    /\ last_set.seq < MaxSets
    /\ new_header' = out.header
    /\ last_set' = Setting(op, args, overflow_checks, new_header, out.result,
                           last_set.seq + 1)
    /\ UNCHANGED <<outputVars, inputVars, frameBufferVars, threadVars,
                   pixelVars, handleVars, streamVars>>

SetResolution ==
    \E width \in ResolutionWidths, height \in ResolutionHeights,
       overflow_checks \in BOOLEAN :
        Set("set_resolution", <<width, height>>, overflow_checks,
            set_resolution(new_header, width, height, overflow_checks))

SetDisplayWindow ==
    \E o \in Origins, width \in {2, 3}, height \in {2, 3} :
        Set("set_display_window", <<o[1], o[2], width, height>>, FALSE,
            set_display_window(new_header, box2i(o[1], o[2], width, height)))

SetDataWindow ==
    \E o \in Origins, width \in WindowSizes, height \in WindowSizes :
        Set("set_data_window", <<o[1], o[2], width, height>>, FALSE,
            set_data_window(new_header, box2i(o[1], o[2], width, height)))

SetLineOrder ==
    \E line_order \in {"INCREASING_Y", "DECREASING_Y"} :
        Set("set_line_order", <<line_order>>, FALSE,
            set_line_order(new_header, line_order))

SetCompression ==
    \E compression \in {"NO_COMPRESSION", "PIZ_COMPRESSION"} :
        Set("set_compression", <<compression>>, FALSE,
            set_compression(new_header, compression))

NextHeader ==
    \/ SetResolution
    \/ SetDisplayWindow
    \/ SetDataWindow
    \/ SetLineOrder
    \/ SetCompression

SpecHeader == InitHeader /\ [][NextHeader]_vars

----------------------------------------------------------------------------
(* set_global_thread_count *)

MaxThreadCalls == 3

\* `thread_count as c_int` of a usize written <<hi, lo>> for hi * 2^31 + lo:
\* the low 32 bits, read as a signed integer
as_c_int(n) == IF n[1] % 2 = 1 THEN (n[2] - I32Max) - 1 ELSE n[2]

\* What a call did: its result, the native calls made, the native library's
\* thread count afterwards
ThreadOutcome(result, calls, count) ==
    [result |-> result, calls |-> calls, count |-> count]

\* Mutant: the range check dropped, the cast value forwarded
set_global_thread_count_unchecked(count, thread_count_arg, native_err) ==
    IF native_err
    THEN ThreadOutcome(Err("native", ""), <<"set_global_thread_count">>, count)
    ELSE ThreadOutcome(OkResult, <<"set_global_thread_count">>,
                       as_c_int(thread_count_arg))

\* count is the native library's thread count before the call; a native
\* call that reports an error leaves it as it was
set_global_thread_count(count, thread_count_arg, native_err) ==
    IF thread_count_arg[1] >= 1
    THEN ThreadOutcome(Err("too_high", ""), NoCalls, count)
    ELSE IF native_err
    THEN ThreadOutcome(Err("native", ""), <<"set_global_thread_count">>, count)
    ELSE ThreadOutcome(OkResult, <<"set_global_thread_count">>,
                       as_c_int(thread_count_arg))

\* The record kept of a call: its argument, the count before it, what it
\* did, and the argument of the last call so far that returned Ok
ThreadCall(n, pre, out, last_ok, seq) ==
    [op |-> "set_global_thread_count", n |-> n, pre |-> pre,
     result |-> out.result, calls |-> out.calls,
     last_ok |-> IF out.result.ok THEN <<n>> ELSE last_ok, seq |-> seq]

NoThreadCalls ==
    [op |-> "none", n |-> <<0, 0>>, pre |-> 0, result |-> OkResult,
     calls |-> NoCalls, last_ok |-> <<>>, seq |-> 0]

\* The arguments passed: 0, 1, 2, 4, the largest c_int, one more,
\* 2^31 + 4 and 2^32 + 4
ThreadCounts ==
    {<<0, 0>>, <<0, 1>>, <<0, 2>>, <<0, 4>>, <<0, I32Max>>, <<1, 0>>,
     <<1, 4>>, <<2, 4>>}

\* The thread pool of the native library starts with no worker thread
InitThreads ==
    /\ thread_count = 0
    /\ last_thread_call = NoThreadCalls
    /\ NoOutputFile
    /\ NoInputFile
    /\ NoFrameBufferBuilt
    /\ NoHeaderBuilt
    /\ NoPixels
    /\ NoHandles
    /\ NoStream

SetGlobalThreadCount ==
    \E n \in ThreadCounts, native_err \in BOOLEAN :
        \E out \in {set_global_thread_count(thread_count, n, native_err)} :
            /\ last_thread_call.seq < MaxThreadCalls
            /\ thread_count' = out.count
            /\ last_thread_call' = ThreadCall(n, thread_count, out,
                                              last_thread_call.last_ok,
                                              last_thread_call.seq + 1)
            /\ UNCHANGED <<outputVars, inputVars, frameBufferVars, headerVars,
                           pixelVars, handleVars, streamVars>>

NextThreads == SetGlobalThreadCount

SpecThreads == InitThreads /\ [][NextThreads]_vars

----------------------------------------------------------------------------
(* Native objects and the Rust values that own them *)

\* The bound on the native objects created
MaxNatives == 5

\* A native object: its kind, the object it is a part of (0: none) and the
\* stream adapter it reads or writes through (0: none)
NativeObject(kind, inside, stream) ==
    [kind |-> kind, inside |-> inside, stream |-> stream]

\* How often the handle p was handed to a delete function or to free
deletes(heap, p) ==
    Cardinality({i \in 1 .. Len(heap.deletions) : heap.deletions[i] = p})

\* The object of handle p exists: neither it nor the object it is a part
\* of was deleted
is_alive(heap, p) ==
    /\ deletes(heap, p) = 0
    /\ heap.objects[p].inside # 0 => deletes(heap, heap.objects[p].inside) = 0

\* The handle of the object created next
new_handle(heap) == Len(heap.objects) + 1

\* A native function creates an object
CEXR_new(heap, kind, inside, stream) ==
    [heap EXCEPT !.objects = Append(@, NativeObject(kind, inside, stream))]

\* A native function is handed the handle p
CEXR_use(heap, p) ==
    [heap EXCEPT !.used_dead = @ \/ ~is_alive(heap, p)]

\* A native delete function, or free, is handed the handle p
CEXR_delete(heap, p) ==
    [CEXR_use(heap, p) EXCEPT !.deletions = Append(@, p)]

\* A Rust value holding native handles: a Header (handle, owned), a
\* ScanlineOutputFile or InputFile (handle, header_ref, ostream / istream),
\* an OutputFile (header_handle) or a ScanlineWriter (handle)
RustValue(type, handle, owned, header_handle, stream) ==
    [type |-> type, handle |-> handle, owned |-> owned,
     header_ref |-> header_handle, stream |-> stream]

\* Header { handle, owned }
HeaderValue(handle, owned) == RustValue("Header", handle, owned, 0, 0)

\* The Header view a file holds in header_ref: never owned
header_ref_of(file) == HeaderValue(file.header_ref, FALSE)

NoValue == RustValue("none", 0, FALSE, 0, 0)

\* What a constructor did: the native objects after it, the value it
\* returned (NoValue with an Err) and the record of its native call
Built(heap, value, call) == [heap |-> heap, value |-> value, call |-> call]

\* CStr::from_ptr(error_out).to_string_lossy().into_owned(): the message
\* is read and copied
into_owned(heap, error_out) == CEXR_use(heap, error_out)

\* Error::take: the message is copied, then freed
Error_take(heap, error_out) == CEXR_delete(into_owned(heap, error_out), error_out)

\* A native call of op failed: it allocated a message, which the error
\* path copies into the Err returned
Failed(heap, op) ==
    Built(into_owned(CEXR_new(heap, "message", 0, 0), new_handle(heap)),
          NoValue, NativeCall(op, TRUE, new_handle(heap)))

\* Header::new
Header_new(heap) ==
    Built(CEXR_new(heap, "Header", 0, 0), HeaderValue(new_handle(heap), TRUE),
          NativeCall("Header::new", FALSE, 0))

\* Mutant: the native header is deleted whether the Header owns it or not
drop_header_unconditional(heap, header) == CEXR_delete(heap, header.handle)

\* Drop for Header
drop_header(heap, header) ==
    IF header.owned THEN CEXR_delete(heap, header.handle) ELSE heap

\* A file object is created on the stream adapter ostream_ptr / istream_ptr
\* (0: on a path); the header it stores is a part of it and is what
\* CEXR_OutputFile_header / CEXR_InputFile_header points to
file_from_stream(heap, op, type, kind, stream_ptr) ==
    Built(CEXR_new(CEXR_new(heap, kind, 0, stream_ptr),
                   "Header", new_handle(heap), 0),
          RustValue(type, new_handle(heap), FALSE, new_handle(heap) + 1,
                    stream_ptr),
          NativeCall(op, FALSE, 0))

\* ScanlineOutputFile::new
ScanlineOutputFile_new(heap, header, stream_err, file_err) ==
    IF stream_err
    THEN Failed(heap, "ScanlineOutputFile::new")
    ELSE IF file_err
    THEN Failed(CEXR_use(CEXR_new(heap, "OStream", 0, 0), header.handle),
                "ScanlineOutputFile::new")
    ELSE file_from_stream(CEXR_use(CEXR_new(heap, "OStream", 0, 0), header.handle),
                          "ScanlineOutputFile::new", "ScanlineOutputFile",
                          "OutputFile", new_handle(heap))

\* InputFile::new
InputFile_new(heap, stream_err, file_err) ==
    IF stream_err
    THEN Failed(heap, "InputFile::new")
    ELSE IF file_err
    THEN Failed(CEXR_new(heap, "IStream", 0, 0), "InputFile::new")
    ELSE file_from_stream(CEXR_new(heap, "IStream", 0, 0), "InputFile::new",
                          "InputFile", "InputFile", new_handle(heap))

\* InputFile::from_slice: CEXR_IStream_from_memory reports no error
InputFile_from_slice(heap, file_err) ==
    IF file_err
    THEN Failed(CEXR_new(heap, "IStream", 0, 0), "InputFile::from_slice")
    ELSE file_from_stream(CEXR_new(heap, "IStream", 0, 0),
                          "InputFile::from_slice", "InputFile", "InputFile",
                          new_handle(heap))

\* Mutant: the stream adapter is deleted before the file that writes to it
drop_scanline_output_file_stream_first(heap, file) ==
    drop_header(CEXR_delete(CEXR_delete(heap, file.stream), file.handle),
                header_ref_of(file))

\* Drop for ScanlineOutputFile: CEXR_OutputFile_delete, CEXR_OStream_delete,
\* then the field header_ref is dropped
drop_scanline_output_file(heap, file) ==
    drop_header(CEXR_delete(CEXR_delete(heap, file.handle), file.stream),
                header_ref_of(file))

\* Drop for InputFile: CEXR_InputFile_delete, CEXR_IStream_delete, then the
\* field header_ref is dropped
drop_input_file(heap, file) ==
    drop_header(CEXR_delete(CEXR_delete(heap, file.handle), file.stream),
                header_ref_of(file))

\* OutputFile::new
OutputFile_new(heap) ==
    Built(CEXR_new(heap, "Header", 0, 0),
          RustValue("OutputFile", new_handle(heap), FALSE, 0, 0),
          NativeCall("OutputFile::new", FALSE, 0))

\* Drop for OutputFile
drop_output_file(heap, builder) == CEXR_delete(heap, builder.handle)

\* ScanlineWriter::new
ScanlineWriter_new(heap, header, file_err) ==
    IF file_err
    THEN Failed(CEXR_use(heap, header), "OutputFile::open")
    ELSE file_from_stream(CEXR_use(heap, header), "OutputFile::open",
                          "ScanlineWriter", "OutputFile", 0)

\* OutputFile::open: self is moved in and dropped when it returns
OutputFile_open(heap, builder, file_err) ==
    [ScanlineWriter_new(heap, builder.handle, file_err) EXCEPT
        !.heap = drop_output_file(@, builder)]

\* Drop for ScanlineWriter
drop_scanline_writer(heap, writer) == CEXR_delete(heap, writer.handle)

\* The error path of a read or write on an open file: the message of the
\* failed native call is copied into Error::Generic
file_call(heap, op, file, failed) ==
    IF failed
    THEN Failed(CEXR_use(heap, file.handle), op)
    ELSE Built(CEXR_use(heap, file.handle), file, NativeCall(op, FALSE, 0))

\* The error path of set_global_thread_count: Error::take
thread_count_call(heap, failed) ==
    IF failed
    THEN Built(Error_take(CEXR_new(heap, "message", 0, 0), new_handle(heap)),
               NoValue,
               NativeCall("set_global_thread_count", TRUE, new_handle(heap)))
    ELSE Built(heap, NoValue, NativeCall("set_global_thread_count", FALSE, 0))

InitHandles ==
    /\ NoHandles
    /\ NoOutputFile
    /\ NoInputFile
    /\ NoFrameBufferBuilt
    /\ NoHeaderBuilt
    /\ NoThreadCall
    /\ NoPixels
    /\ NoStream

OtherThanHandles ==
    <<outputVars, inputVars, frameBufferVars, headerVars, threadVars, pixelVars,
      streamVars>>

\* The Rust values of a type
ValuesOf(type) == {v \in values : v.type = type}

Files == ValuesOf("ScanlineOutputFile") \cup ValuesOf("InputFile")

\* A constructor returned out: Ok(value) or an Err
Construct(out) ==
    /\ Len(out.heap.objects) <= MaxNatives
    /\ native_heap' = out.heap
    /\ values' = IF out.value = NoValue THEN values ELSE values \cup {out.value}
    /\ last_native' = out.call
    /\ UNCHANGED OtherThanHandles

\* The value v goes out of scope: heap is what its Drop left
Dropped(v, heap) ==
    /\ native_heap' = heap
    /\ values' = values \ {v}
    /\ last_native' = NativeCall(v.type, FALSE, 0)
    /\ UNCHANGED OtherThanHandles

HeaderNew == Construct(Header_new(native_heap))

DropHeader ==
    \E header \in ValuesOf("Header") :
        Dropped(header, drop_header(native_heap, header))

\* Header::data_window on a Header of the caller or on file.header()
HeaderDataWindow ==
    \E header \in ValuesOf("Header") \cup {header_ref_of(file) : file \in Files} :
        /\ native_heap' = CEXR_use(native_heap, header.handle)
        /\ last_native' = NativeCall("data_window", FALSE, 0)
        /\ UNCHANGED <<values, OtherThanHandles>>

ScanlineOutputFileNew ==
    \E header \in ValuesOf("Header"), stream_err \in BOOLEAN, file_err \in BOOLEAN :
        Construct(ScanlineOutputFile_new(native_heap, header, stream_err, file_err))

DropScanlineOutputFile ==
    \E file \in ValuesOf("ScanlineOutputFile") :
        Dropped(file, drop_scanline_output_file(native_heap, file))

InputFileNew ==
    \E stream_err \in BOOLEAN, file_err \in BOOLEAN :
        Construct(InputFile_new(native_heap, stream_err, file_err))

InputFileFromSlice ==
    \E file_err \in BOOLEAN :
        Construct(InputFile_from_slice(native_heap, file_err))

DropInputFile ==
    \E file \in ValuesOf("InputFile") :
        Dropped(file, drop_input_file(native_heap, file))

OutputFileNew == Construct(OutputFile_new(native_heap))

\* OutputFile::open consumes the OutputFile
OutputFileOpen ==
    \E builder \in ValuesOf("OutputFile"), file_err \in BOOLEAN :
        \E out \in {OutputFile_open(native_heap, builder, file_err)} :
            /\ Len(out.heap.objects) <= MaxNatives
            /\ native_heap' = out.heap
            /\ values' = (values \ {builder})
                            \cup (IF out.value = NoValue THEN {} ELSE {out.value})
            /\ last_native' = out.call
            /\ UNCHANGED OtherThanHandles

DropOutputFile ==
    \E builder \in ValuesOf("OutputFile") :
        Dropped(builder, drop_output_file(native_heap, builder))

DropScanlineWriter ==
    \E writer \in ValuesOf("ScanlineWriter") :
        Dropped(writer, drop_scanline_writer(native_heap, writer))

\* A read or write on an open file, as far as native objects go
FileCall(op, type) ==
    \E file \in ValuesOf(type), failed \in BOOLEAN :
        Construct(file_call(native_heap, op, file, failed))

HandlesWritePixels == FileCall("write_pixels", "ScanlineOutputFile")

HandlesWritePixelsIncremental ==
    FileCall("write_pixels_incremental", "ScanlineOutputFile")

HandlesReadPixels == FileCall("read_pixels", "InputFile")

HandlesReadPixelsPartial == FileCall("read_pixels_partial", "InputFile")

HandlesSetGlobalThreadCount ==
    \E failed \in BOOLEAN :
        Construct(thread_count_call(native_heap, failed))

NextHandles ==
    \/ HeaderNew
    \/ DropHeader
    \/ HeaderDataWindow
    \/ ScanlineOutputFileNew
    \/ DropScanlineOutputFile
    \/ InputFileNew
    \/ InputFileFromSlice
    \/ DropInputFile
    \/ OutputFileNew
    \/ OutputFileOpen
    \/ DropOutputFile
    \/ DropScanlineWriter
    \/ HandlesWritePixels
    \/ HandlesWritePixelsIncremental
    \/ HandlesReadPixels
    \/ HandlesReadPixelsPartial
    \/ HandlesSetGlobalThreadCount

SpecHandles == InitHandles /\ [][NextHandles]_vars

----------------------------------------------------------------------------
(* StreamWriter *)

\* The last position of the writer that is followed
MaxPosition == 4

\* The byte counts the native side writes in one call
WriteLengths == 0 .. 2

\* What a callback did: the StreamWriter and the position of its writer
\* after it, and what it returned
Called(sw, position, ret) ==
    [stream_writer |-> sw, writer_position |-> position, ret |-> ret]

\* StreamWriter::new: the writer is sought to 0; a failing seek panics
StreamWriter_new(position, seek_ok) ==
    IF seek_ok
    THEN Called([cursor_pos |-> 0], 0, 0)
    ELSE Called(NoStreamWriter, position, 1)

\* write: write_all returned Ok after all n bytes, or Err after the first
\* written < n of them reached the writer
write(sw, position, n, written) ==
    IF written = n
    THEN Called([sw EXCEPT !.cursor_pos = @ + n], position + n, 0)
    ELSE Called(sw, position + written, 1)

tellp(sw) == sw.cursor_pos

\* seekp: seek(SeekFrom::Start(pos)) returned Ok(pos), or Err leaving the
\* writer where it was
seekp(sw, position, pos, seek_ok) ==
    IF seek_ok
    THEN Called([sw EXCEPT !.cursor_pos = pos], pos, 0)
    ELSE Called(sw, position, 1)

\* A writer positioned anywhere, no StreamWriter on it yet
InitStream ==
    /\ writer_position \in 0 .. MaxPosition
    /\ stream_writer = NoStreamWriter
    /\ last_callback = NoCallback
    /\ NoOutputFile
    /\ NoInputFile
    /\ NoFrameBufferBuilt
    /\ NoHeaderBuilt
    /\ NoThreadCall
    /\ NoPixels
    /\ NoHandles

\* The callback op with the argument arg did out
StreamCall(op, arg, io_ok, out) ==
    /\ writer_position' = out.writer_position
    /\ stream_writer' = out.stream_writer
    /\ last_callback' = Callback(op, arg, io_ok, out.ret, stream_writer.cursor_pos)
    /\ UNCHANGED <<outputVars, inputVars, frameBufferVars, headerVars,
                   threadVars, pixelVars, handleVars>>

StreamWriterNew ==
    /\ stream_writer = NoStreamWriter
    /\ \E seek_ok \in BOOLEAN :
          StreamCall("new", 0, seek_ok, StreamWriter_new(writer_position, seek_ok))

StreamWrite ==
    /\ stream_writer # NoStreamWriter
    /\ \E n \in WriteLengths, written \in WriteLengths :
          /\ written <= n
          /\ writer_position + n <= MaxPosition
          /\ stream_writer.cursor_pos + n <= MaxPosition
          /\ StreamCall("write", n, written = n,
                        write(stream_writer, writer_position, n, written))

StreamTellp ==
    /\ stream_writer # NoStreamWriter
    /\ StreamCall("tellp", 0, TRUE,
                  Called(stream_writer, writer_position, tellp(stream_writer)))

StreamSeekp ==
    /\ stream_writer # NoStreamWriter
    /\ \E pos \in 0 .. MaxPosition, seek_ok \in BOOLEAN :
          StreamCall("seekp", pos, seek_ok,
                     seekp(stream_writer, writer_position, pos, seek_ok))

NextStream ==
    \/ StreamWriterNew
    \/ StreamWrite
    \/ StreamTellp
    \/ StreamSeekp

SpecStream == InitStream /\ [][NextStream]_vars

----------------------------------------------------------------------------
(* Properties of the ScanlineOutputFile write protocol *)

ImageHeight == data_dimensions(header_ref)[2]

ImageWidth == data_dimensions(header_ref)[1]

Min(a, b) == IF a <= b THEN a ELSE b

Wrote(op) == last_write.op = op

WroteAny == last_write.op # "none"

LastFb == last_write.framebuffer

\* C1: write_pixels returns an error whenever scanlines have already been
\* written by this handle (by write_pixels or by write_pixels_incremental);
\* it succeeds at most once per handle, and only from the fresh state.
C1_FullWriteOnlyOnce ==
    /\ full_writes <= 1
    /\ Wrote("write_pixels") =>
          /\ last_write.pre # 0 => ~last_write.result.ok
          /\ last_write.result.ok => last_write.pre = 0

\* A second full-image write, after a successful one, was refused
C1_Witness ==
    /\ Wrote("write_pixels")
    /\ full_writes = 1
    /\ last_write.pre = ImageHeight
    /\ last_write.result = Err("already_written", "")

\* C2: scanlines_written = image height is terminal and absorbing: every
\* write_pixels and write_pixels_incremental call made from it fails, for
\* any framebuffer, and leaves the counter at the image height.
C2_CompleteIsTerminal ==
    (WroteAny /\ last_write.pre = ImageHeight) =>
        /\ ~last_write.result.ok
        /\ last_write.calls = NoCalls
        /\ scanlines_written = ImageHeight

\* An incremental write of an empty framebuffer was refused on a complete
\* image that incremental writes had filled
C2_Witness ==
    /\ Wrote("write_pixels_incremental")
    /\ full_writes = 0
    /\ last_write.pre = ImageHeight
    /\ dimensions(LastFb)[2] = 0
    /\ ~last_write.result.ok

\* C3: in every reachable state 0 <= scanlines_written <= image height, the
\* subtraction image_height - scanlines_written does not underflow, and no
\* call, successful or failing, decreases the counter.
C3_CounterInRange ==
    /\ [](/\ 0 <= scanlines_written
          /\ scanlines_written <= ImageHeight
          /\ remaining_scanlines(scanlines_written, header_ref)
                = ImageHeight - scanlines_written)
    /\ [][scanlines_written' >= scanlines_written]_vars

\* Incremental writes, the last one after an earlier one, reached the height
C3_Witness ==
    /\ Wrote("write_pixels_incremental")
    /\ last_write.result.ok
    /\ last_write.pre > 0
    /\ scanlines_written = ImageHeight

\* C4: whenever write_pixels or write_pixels_incremental returns an error,
\* for any cause, scanlines_written is what it was before the call.
C4_ErrorKeepsCounter ==
    (WroteAny /\ ~last_write.result.ok) => scanlines_written = last_write.pre

\* The native write of an incremental call failed on a partly written image
C4_Witness ==
    /\ Wrote("write_pixels_incremental")
    /\ last_write.result = Err("native", "")
    /\ last_write.calls = <<"set_framebuffer", "write_pixels">>
    /\ last_write.pre > 0
    /\ dimensions(LastFb)[2] > 0

\* The case of C5: an incremental call made while scanlines remain, with a
\* framebuffer of matching width and channels, on which no native call failed
C5_Case ==
    /\ Wrote("write_pixels_incremental")
    /\ last_write.pre < ImageHeight
    /\ dimensions(LastFb)[1] = ImageWidth
    /\ validate_framebuffer_for_output(header_ref, LastFb).ok
    /\ last_write.result.kind # "native"

\* C5 as stated: the call writes min(framebuffer.height, remaining) scanlines
\* and advances the counter by that number, also when framebuffer.height
\* exceeds the remaining scanlines.
C5_Original ==
    C5_Case =>
        LET n == Min(dimensions(LastFb)[2], ImageHeight - last_write.pre)
        IN  /\ last_write.result.ok
            /\ last_write.requested = n
            /\ scanlines_written = last_write.pre + n

\* C5 (amended): when framebuffer.height <= remaining the call writes
\* framebuffer.height = min(framebuffer.height, remaining) scanlines and
\* advances the counter by that number; when framebuffer.height exceeds the
\* remaining scanlines it returns an error and writes nothing.
C5_IncrementalAdvance ==
    C5_Case =>
        LET n == Min(dimensions(LastFb)[2], ImageHeight - last_write.pre)
        IN  IF dimensions(LastFb)[2] <= ImageHeight - last_write.pre
            THEN /\ last_write.result.ok
                 /\ last_write.calls = <<"set_framebuffer", "write_pixels">>
                 /\ last_write.requested = n
                 /\ scanlines_written = last_write.pre + n
            ELSE /\ ~last_write.result.ok
                 /\ last_write.calls = NoCalls
                 /\ scanlines_written = last_write.pre

\* A chunk of two or more scanlines was written after an earlier chunk
C5_Witness ==
    /\ C5_Case
    /\ last_write.result.ok
    /\ last_write.pre > 0
    /\ dimensions(LastFb)[2] >= 2

\* C6: write_pixels_incremental returns an error, without invoking the
\* native set_framebuffer or write, when the framebuffer holds more
\* scanlines than remain to be written.
C6_TooManyScanlinesRefused ==
    (/\ Wrote("write_pixels_incremental")
     /\ dimensions(LastFb)[2] > ImageHeight - last_write.pre) =>
        /\ ~last_write.result.ok
        /\ last_write.calls = NoCalls

\* A framebuffer no taller than the image was refused on a partly written image
C6_Witness ==
    /\ Wrote("write_pixels_incremental")
    /\ last_write.pre > 0
    /\ last_write.pre < ImageHeight
    /\ dimensions(LastFb)[2] > ImageHeight - last_write.pre
    /\ dimensions(LastFb)[2] <= ImageHeight
    /\ last_write.result = Err("too_many_scanlines", "")

----------------------------------------------------------------------------
(* Properties of the validation of a FrameBuffer for output *)

HeaderDeclares(name) == header_ref.channels[name] # NoChannel

FbDeclares(name) == _get_channel(LastFb, name) # NoChannel

\* C7: if the Header declares a channel the FrameBuffer does not contain,
\* write_pixels and write_pixels_incremental fail before the native
\* set_framebuffer and write are invoked, and the counter is unchanged.
C7_MissingChannelRefused ==
    (/\ WroteAny
     /\ \E name \in FBNames : HeaderDeclares(name) /\ ~FbDeclares(name)) =>
        /\ ~last_write.result.ok
        /\ last_write.calls = NoCalls
        /\ last_write.requested = 0
        /\ scanlines_written = last_write.pre

\* A full-size framebuffer lacking the channel R was refused for that reason
C7_Witness ==
    /\ Wrote("write_pixels")
    /\ HeaderDeclares("R") /\ ~FbDeclares("R")
    /\ last_write.result = Err("missing_channel", "R")

ChannelErrors == {"missing_channel", "type_mismatch", "subsampling_mismatch"}

----------------------------------------------------------------------------
(* Properties of InputFile::read_pixels and of the validation for input *)

ReadFb == last_read.framebuffer

\* read_pixels was called and its size check passed: the validation ran
Validated ==
    /\ last_read.op = "read_pixels"
    /\ dimensions(ReadFb) = data_dimensions(in_header_ref)

InHeaderDeclares(i) == in_header_ref.channels[ChannelOrder[i]] # NoChannel

\* The i-th name is declared on both sides, with a different type or subsampling
Mismatching(i) ==
    /\ InHeaderDeclares(i)
    /\ _get_channel(ReadFb, ChannelOrder[i]) # NoChannel
    /\ _get_channel(ReadFb, ChannelOrder[i]) # in_header_ref.channels[ChannelOrder[i]]

\* The error expected for the mismatching i-th name: the type comes first
MismatchError(i) ==
    IF _get_channel(ReadFb, ChannelOrder[i]).pixel_type
         # in_header_ref.channels[ChannelOrder[i]].pixel_type
    THEN Err("type_mismatch", ChannelOrder[i])
    ELSE Err("subsampling_mismatch", ChannelOrder[i])

ValidationErrors == {"invalid_name", "type_mismatch", "subsampling_mismatch"}

\* C9 as stated: the validation for input succeeds iff every channel present
\* on both sides has equal pixel type and subsampling; on failure the error
\* names the first mismatching channel in header order, the pixel type
\* reported in preference to the subsampling.
C9_Original ==
    Validated =>
        LET bad == {i \in 1 .. Len(ChannelOrder) : Mismatching(i)}
        IN  IF bad = {}
            THEN last_read.result.kind \notin ValidationErrors
            ELSE last_read.result =
                    MismatchError(CHOOSE i \in bad : \A j \in bad : i <= j)

\* The i-th name is declared by the header and is not valid UTF-8
Undecodable(i) == InHeaderDeclares(i) /\ ~ValidUtf8(ChannelOrder[i])

\* C9 (amended): the validation for input succeeds iff every channel name of
\* the header is valid UTF-8 and every channel present on both sides has
\* equal pixel type and subsampling; on failure the error is that of the
\* first header channel, in iteration order, that is undecodable or
\* mismatching, the pixel type reported in preference to the subsampling.
C9_InputValidation ==
    Validated =>
        LET bad == {i \in 1 .. Len(ChannelOrder) : Mismatching(i) \/ Undecodable(i)}
            first == CHOOSE i \in bad : \A j \in bad : i <= j
        IN  IF bad = {}
            THEN last_read.result.kind \notin ValidationErrors
            ELSE last_read.result =
                    IF Undecodable(first)
                    THEN Err("invalid_name", ChannelOrder[first])
                    ELSE MismatchError(first)

\* G and R both mismatch, G in pixel type and in x subsampling: the error
\* returned is the type mismatch of G
C9_Witness ==
    /\ Validated
    /\ Mismatching(1) /\ Mismatching(3)
    /\ last_read.result.kind = "type_mismatch"
    /\ last_read.result.chan = "G"
    /\ _get_channel(ReadFb, "G").x_sampling # in_header_ref.channels["G"].x_sampling

\* C10: read_pixels returns an error and invokes neither native call when
\* the framebuffer's dimensions differ from the data window's or the channel
\* validation fails; the native read is requested only after both checks
\* passed and the native set_framebuffer succeeded.
C10_ReadChecksBeforeNative ==
    last_read.op = "read_pixels" =>
        /\ (\/ dimensions(ReadFb) # data_dimensions(in_header_ref)
            \/ ~validate_framebuffer_for_input(in_header_ref, ReadFb).ok) =>
                /\ ~last_read.result.ok
                /\ last_read.calls = NoCalls
        /\ (\E k \in 1 .. Len(last_read.calls) : last_read.calls[k] = "read_pixels") =>
                /\ dimensions(ReadFb) = data_dimensions(in_header_ref)
                /\ validate_framebuffer_for_input(in_header_ref, ReadFb).ok
                /\ last_read.calls = <<"set_framebuffer", "read_pixels">>
                /\ ~last_read.native[1]

\* A framebuffer one scanline too tall, with matching channels, was refused
C10_Witness ==
    /\ last_read.op = "read_pixels"
    /\ dimensions(ReadFb)[2] = data_dimensions(in_header_ref)[2] + 1
    /\ validate_framebuffer_for_input(in_header_ref, ReadFb).ok
    /\ ~last_read.result.ok
    /\ last_read.calls = NoCalls

----------------------------------------------------------------------------
(* Properties of reads and writes of images with a displaced data window *)

\* The last call was read_pixels on a file whose data window origin is not
\* (0, 0)
DisplacedRead ==
    /\ last_read.op = "read_pixels"
    /\ data_origin(in_header_ref) # <<0, 0>>

\* C11: on a file whose data window origin is not (0, 0), read_pixels fails
\* for every FrameBufferMut whose declared origin differs from the data
\* window's origin, and succeeds for one whose origin and dimensions match
\* (its channels being valid and the native calls succeeding).
C11_OriginMustMatch ==
    DisplacedRead =>
        /\ origin(ReadFb) # data_origin(in_header_ref) => ~last_read.result.ok
        /\ ( /\ origin(ReadFb) = data_origin(in_header_ref)
             /\ dimensions(ReadFb) = data_dimensions(in_header_ref)
             /\ last_read.native = <<FALSE, FALSE>> )
           => last_read.result.ok

\* The framebuffer of the last write has the dimensions and the origin of
\* the header's data window
GeometryMatches ==
    /\ dimensions(LastFb) = data_dimensions(header_ref)
    /\ origin(LastFb) = data_origin(header_ref)

\* C12: write_pixels reaches the native calls only with a framebuffer whose
\* dimensions equal data_dimensions() and whose origin equals data_origin();
\* when either differs it returns an error, invokes no native call and
\* writes nothing.
C12_WriteGeometryChecked ==
    Wrote("write_pixels") =>
        /\ last_write.calls # NoCalls => GeometryMatches
        /\ ~GeometryMatches =>
              /\ ~last_write.result.ok
              /\ last_write.calls = NoCalls
              /\ scanlines_written = last_write.pre

\* A fresh file refused a framebuffer of the image's dimensions declared
\* with another origin
C12_Witness ==
    /\ Wrote("write_pixels")
    /\ last_write.pre = 0
    /\ dimensions(LastFb) = data_dimensions(header_ref)
    /\ origin(LastFb) # data_origin(header_ref)
    /\ last_write.result = Err("origin_mismatch", "")
    /\ scanlines_written = 0

----------------------------------------------------------------------------
(* Properties of InputFile::read_pixels_partial *)

InImageHeight == data_dimensions(in_header_ref)[2]

ReadPartial == last_read.op = "read_pixels_partial"

\* C13: a successful read_pixels_partial(starting_scanline, fb) with
\* starting_scanline below the image height returns exactly
\* min(fb.height, height - starting_scanline).
C13_PartialReadCount ==
    (/\ ReadPartial
     /\ last_read.result.ok
     /\ last_read.starting_scanline < InImageHeight) =>
        last_read.count =
            Min(dimensions(ReadFb)[2], InImageHeight - last_read.starting_scanline)

\* A read started inside the image with a framebuffer taller than what is
\* left returned the scanlines left
C13_Witness ==
    /\ ReadPartial
    /\ last_read.result.ok
    /\ last_read.starting_scanline > 0
    /\ last_read.starting_scanline < InImageHeight
    /\ dimensions(ReadFb)[2] > InImageHeight - last_read.starting_scanline
    /\ last_read.count = InImageHeight - last_read.starting_scanline

\* C14: read_pixels_partial with starting_scanline at or past the image
\* height is reported as a returned error, not as a panic, and no native
\* call is made.
C14_PastEndIsReturnedError ==
    (/\ ReadPartial
     /\ last_read.starting_scanline >= InImageHeight) =>
        /\ ~last_read.result.ok
        /\ last_read.result # Panic
        /\ last_read.calls = NoCalls

\* The native reader was asked for scanlines by the last read_pixels_partial
PartialRangeRequested ==
    /\ ReadPartial
    /\ Len(last_read.calls) = 2

\* C25: a read_pixels_partial call that passes validation requests the
\* scanlines [min.y + starting_scanline, min.y + starting_scanline + count - 1]
\* from the native reader, count being the scanline count returned: the
\* range is not empty and lies inside the data window [min.y, max.y],
\* whatever the height of the framebuffer.
C25_RangeInsideWindow ==
    PartialRangeRequested =>
        /\ last_read.result.ok =>
              last_read.range =
                  <<data_window(in_header_ref).min[2] + last_read.starting_scanline,
                    data_window(in_header_ref).min[2] + last_read.starting_scanline
                        + last_read.count - 1>>
        /\ last_read.range[1] <= last_read.range[2]
        /\ data_window(in_header_ref).min[2] <= last_read.range[1]
        /\ last_read.range[2] <= data_window(in_header_ref).max[2]

----------------------------------------------------------------------------
(* Properties of FrameBuffer insertion *)

\* width * height of the frame buffer, exactly
Elements == BigMul(dimensions(frame_buffer)[1], dimensions(frame_buffer)[2])

InsertedBy(ops) == last_insert.op \in ops

\* C15: insert_channel and insert_channels register slices only when the
\* buffer holds exactly width * height elements; for any other length the
\* call fails and no slice is registered.
C15_ExactLengthRequired ==
    InsertedBy({"insert_channel", "insert_channels"}) =>
        /\ Big(last_insert.data_len) # Elements =>
              /\ ~last_insert.result.ok
              /\ frame_buffer.slices = last_insert.pre
        /\ frame_buffer.slices # last_insert.pre =>
              Big(last_insert.data_len) = Elements

\* insert_channels was called with names for every channel of T and a
\* buffer one element too long: it failed and registered nothing
C15_Witness ==
    /\ InsertedBy({"insert_channels"})
    /\ Len(last_insert.names) = channel_count(last_insert.T)
    /\ Big(last_insert.data_len - 1) = Elements
    /\ ~last_insert.result.ok
    /\ frame_buffer.slices = last_insert.pre

\* C16: insert_channels on a slice of T registers exactly T::channel_count()
\* channels, one per (PixelType, byte offset) pair of T's layout in order,
\* the i-th name bound to the i-th pair, whatever names list is passed.
C16_ChannelCountFromType ==
    (/\ InsertedBy({"insert_channels"})
     /\ Big(last_insert.data_len) = Elements) =>
        /\ last_insert.result.ok
        /\ Cardinality({n \in SliceNames :
                           frame_buffer.slices[n] # last_insert.pre[n]})
              = channel_count(last_insert.T)
        /\ \A i \in 1 .. channel_count(last_insert.T) :
              /\ i <= Len(last_insert.names)
              /\ frame_buffer.slices[last_insert.names[i]].pixel_type
                    = channel(last_insert.T, i)[1]
              /\ frame_buffer.slices[last_insert.names[i]].base
                    = Big(channel(last_insert.T, i)[2])

BigLeq(a, b) == ~BigLess(b, a)

\* One past the last byte of the sample (x, y) of a slice, from the start
\* of its backing buffer
SampleEnd(slice, x, y) ==
    BigAdd(BigAdd(slice.base,
                  BigAdd(BigMul(x, slice.stride[1]), BigMul(y, slice.stride[2]))),
           Big(size_of(slice.pixel_type)))

\* The first and the last column, the first and the last row: the strides
\* are not negative, so every other sample lies between these
Corners ==
    {<<x, y>> : x \in {Big(0), BigSub(dimensions(frame_buffer)[1], Big(1))},
                y \in {Big(0), BigSub(dimensions(frame_buffer)[2], Big(1))}}

\* C17: every sample of every channel registered by insert_channel,
\* insert_channels, add_slice, add_interleaved_slice or add_structured_slice
\* on a width x height frame buffer lies inside the backing buffer:
\* start + x * x_stride + y * y_stride + sample_size <= buffer length.
C17_SamplesInsideBuffer ==
    (/\ InsertedBy({"insert_channel", "insert_channels", "add_slice",
                    "add_interleaved_slice", "add_structured_slice"})
     /\ BigLess(Big(0), dimensions(frame_buffer)[1])
     /\ BigLess(Big(0), dimensions(frame_buffer)[2])) =>
        \A n \in SliceNames :
            frame_buffer.slices[n] # NoSlice =>
                \A c \in Corners :
                    BigLeq(SampleEnd(frame_buffer.slices[n], c[1], c[2]),
                           frame_buffer.slices[n].bytes)

\* The first byte of the sample (x, y) of a slice, from the start of its
\* backing buffer
SampleStart(slice, x, y) ==
    BigAdd(slice.base,
           BigAdd(BigMul(x, slice.stride[1]), BigMul(y, slice.stride[2])))

\* The names the last insertion registered: the names list as far as it was
\* paired with channels of T
RegisteredNames ==
    IF ~last_insert.result.ok THEN {}
    ELSE IF InsertedBy({"add_interleaved_slice"})
    THEN {last_insert.names[i] : i \in 1 .. Len(last_insert.names)}
    ELSE {last_insert.names[i] : i \in DOMAIN zip(last_insert.names, last_insert.T)}

\* The pixels of the first two columns and rows of the frame buffer
FirstPixels ==
    {c \in {<<Big(x), Big(y)>> : x \in {0, 1}, y \in {0, 1}} :
        /\ BigLess(c[1], dimensions(frame_buffer)[1])
        /\ BigLess(c[2], dimensions(frame_buffer)[2])}

\* The bytes of the sample p of slice a and of the sample q of slice b do
\* not overlap
Disjoint(a, p, b, q) ==
    \/ BigLeq(SampleEnd(a, p[1], p[2]), SampleStart(b, q[1], q[2]))
    \/ BigLeq(SampleEnd(b, q[1], q[2]), SampleStart(a, p[1], p[2]))

\* C23: two different channels registered by one insert_channels,
\* add_interleaved_slice or add_structured_slice call describe slices that
\* do not overlap: the bytes of any sample of the one and of any sample of
\* the other inside the width x height region are disjoint.
C23_SlicesDoNotOverlap ==
    InsertedBy({"insert_channels", "add_interleaved_slice",
                "add_structured_slice"}) =>
        \A a \in RegisteredNames, b \in RegisteredNames :
            a # b =>
                \A p \in FirstPixels, q \in FirstPixels :
                    Disjoint(frame_buffer.slices[a], p, frame_buffer.slices[b], q)

\* A name of the last call was registered before the call
AlreadyRegistered ==
    \E i \in 1 .. Len(last_insert.names) :
        last_insert.pre[last_insert.names[i]] # NoSlice

\* Every slice of the frame buffer names one of its buffers
IndicesInRange ==
    \A n \in SliceNames :
        frame_buffer.slices[n] # NoSlice =>
            /\ 0 <= frame_buffer.index[n]
            /\ frame_buffer.index[n] < Len(frame_buffer.buffers)

\* A step that is an add_raw_slice call naming a registered channel fails
\* and changes nothing of the frame buffer
RawSliceAllOrNothing ==
    (/\ last_insert'.seq # last_insert.seq
     /\ last_insert'.op = "add_raw_slice"
     /\ \E i \in 1 .. Len(last_insert'.names) :
           frame_buffer.slices[last_insert'.names[i]] # NoSlice)
        => /\ ~last_insert'.result.ok
           /\ frame_buffer' = frame_buffer

\* C24: after any sequence of insertions every slice description of the
\* frame buffer refers to an existing entry of its buffer list, one
\* description per name; add_raw_slice with a name that is registered
\* already fails and leaves the channels and the buffers as they were.
C24_RawSliceAllOrNothing ==
    []IndicesInRange /\ [][RawSliceAllOrNothing]_vars

\* add_raw_slice was called with a new name followed by a registered one:
\* it failed and the frame buffer kept the one buffer and the slices it had
C24_Witness ==
    /\ InsertedBy({"add_raw_slice"})
    /\ AlreadyRegistered
    /\ last_insert.pre[last_insert.names[1]] = NoSlice
    /\ ~last_insert.result.ok
    /\ frame_buffer.slices = last_insert.pre
    /\ Len(frame_buffer.buffers) = 1

----------------------------------------------------------------------------
(* Properties of the Header setters *)

SetBy(op) == last_set.op = op

\* u - 1 is an i32
HasPred(u) == u[1] = 0 \/ u = <<1, 0>>

Pred(u) == IF u[1] = 0 THEN u[2] - 1 ELSE I32Max

\* A u32 as data_dimensions reports it
Reported(u) == U32(as_i32(u))

\* Both windows are ((0, 0), (width - 1, height - 1)), the data window
\* reports the origin (0, 0) and the dimensions (width, height), and the
\* channel list, the compression and the line order are those of before
ResolutionSet(width, height) ==
    /\ last_set.result.ok
    /\ HasPred(width)
    /\ HasPred(height)
    /\ new_header.window =
          [min |-> <<0, 0>>, max |-> <<Pred(width), Pred(height)>>]
    /\ new_header.display_window = new_header.window
    /\ data_origin(new_header) = <<0, 0>>
    /\ data_dimensions(new_header) = <<Reported(width), Reported(height)>>
    /\ new_header.channels = last_set.pre.channels
    /\ new_header.compression = last_set.pre.compression
    /\ new_header.line_order = last_set.pre.line_order

C19_DataWindowAccepted ==
    SetBy("set_data_window") =>
        /\ last_set.result.ok
        /\ data_origin(new_header) = <<last_set.args[1], last_set.args[2]>>
        /\ data_dimensions(new_header) = <<last_set.args[3], last_set.args[4]>>

----------------------------------------------------------------------------
(* Properties of set_global_thread_count *)

ThreadCalled == last_thread_call.op = "set_global_thread_count"

\* C20: set_global_thread_count(n) returns an error without calling the
\* native setter when n exceeds the largest C int, leaving the thread count
\* unchanged; for n within range it forwards n; after any sequence of calls
\* the thread count is the argument of the last successful call.
C20_ThreadCountRange ==
    /\ (ThreadCalled /\ last_thread_call.n[1] >= 1) =>
          /\ ~last_thread_call.result.ok
          /\ last_thread_call.calls = NoCalls
          /\ thread_count = last_thread_call.pre
    /\ (ThreadCalled /\ last_thread_call.n[1] = 0) =>
          /\ last_thread_call.calls = <<"set_global_thread_count">>
          /\ last_thread_call.result.ok => thread_count = last_thread_call.n[2]
    /\ last_thread_call.last_ok # <<>> =>
          /\ last_thread_call.last_ok[1][1] = 0
          /\ thread_count = last_thread_call.last_ok[1][2]

\* After a successful call with 4, a call with one more than the largest
\* C int was refused and the count is still 4
C20_Witness ==
    /\ ThreadCalled
    /\ last_thread_call.n = <<1, 0>>
    /\ last_thread_call.result = Err("too_high", "")
    /\ last_thread_call.last_ok = << <<0, 4>> >>
    /\ thread_count = 4


----------------------------------------------------------------------------
(* Properties of pixel data written to a file and read back *)

\* The k-th successful write and its frame buffer
WrittenFb(k) == written_chunks[k].framebuffer

\* The sample of the destination buffer that belongs to the pixel in
\* column c and row r of the frame buffer read into, for the channel n
ReadSample(n, c, r) ==
    read_data.memory[<<c + r * dimensions(ReadFb)[1], ReadFb.fields[n]>>]

\* The sample of the source buffer of the k-th successful write that belongs
\* to the pixel in column c and row r of its frame buffer, for the channel n
WrittenSample(k, n, c, r) ==
    Sample(k, c + r * dimensions(WrittenFb(k))[1], WrittenFb(k).fields[n])

\* One write_pixels call wrote the image and a read_pixels call read it into
\* a frame buffer of the same dimensions, channels and pixel types
FullRoundTrip ==
    /\ Len(written_chunks) = 1
    /\ written_chunks[1].op = "write_pixels"
    /\ last_read.op = "read_pixels"
    /\ last_read.result.ok
    /\ dimensions(ReadFb) = dimensions(WrittenFb(1))
    /\ \A n \in FBNames : _get_channel(ReadFb, n) = _get_channel(WrittenFb(1), n)

\* C21: a full image written with write_pixels and read back with
\* read_pixels into a frame buffer of the same dimensions, channels and pixel
\* types yields, for every pixel and every channel, the sample written
C21_ReadBackWhatWasWritten ==
    FullRoundTrip =>
        \A n \in FBNames, c \in 0 .. (dimensions(ReadFb)[1] - 1),
           r \in 0 .. (dimensions(ReadFb)[2] - 1) :
            ReadSample(n, c, r) = WrittenSample(1, n, c, r)

\* The height of the k-th successful write
ChunkHeight(k) == dimensions(WrittenFb(k))[2]

\* h1 + .. + h(k-1): the scanlines of the successful writes before the k-th
RECURSIVE HeightsBefore(_)
HeightsBefore(k) ==
    IF k <= 1 THEN 0 ELSE HeightsBefore(k - 1) + ChunkHeight(k - 1)

\* The k-th successful write started at the scanline where the writes
\* before it ended, and the file holds its rows from there on
ChunkInPlace(k) ==
    /\ written_chunks[k].first = HeightsBefore(k)
    /\ \A n \in FBNames, c \in 0 .. 1, r \in 0 .. (ChunkHeight(k) - 1) :
          file_pixels[<<n, c, HeightsBefore(k) + r>>] = WrittenSample(k, n, c, r)

\* The scanlines a successful read delivers: the image for read_pixels, the
\* count returned for read_pixels_partial
RowsRead ==
    IF ReadPartial THEN last_read.count ELSE dimensions(ReadFb)[2]

\* A successful read delivered the scanlines from starting_scanline on into
\* the rows 0 .. RowsRead - 1 of the frame buffer
ReadInPlace ==
    \A n \in FBNames, c \in 0 .. 1, r \in 0 .. (RowsRead - 1) :
        ReadSample(n, c, r) = file_pixels[<<n, c, last_read.starting_scanline + r>>]

----------------------------------------------------------------------------
(* Properties of the native objects' lifetimes *)

Handles == 1 .. Len(native_heap.objects)

KindOf(p) == native_heap.objects[p].kind

\* A Rust value alive holds the handle p as its own
Held(p) == \E v \in values : v.handle = p

\* The place of the handle p among the deletions
DeletedAt(p) ==
    CHOOSE i \in 1 .. Len(native_heap.deletions) : native_heap.deletions[i] = p

\* C26: a native header is destroyed exactly once: the header of a Header
\* that owns it is deleted once, when that Header is dropped; the header a
\* file holds a borrowed view of is never deleted through the view, only
\* with the file; no header is deleted twice and no deleted handle is
\* handed to the native library.
C26_HeaderDestroyedOnce ==
    /\ ~native_heap.used_dead
    /\ \A p \in Handles :
          KindOf(p) = "Header" =>
              /\ deletes(native_heap, p) <= 1
              /\ native_heap.objects[p].inside # 0 => deletes(native_heap, p) = 0
              /\ native_heap.objects[p].inside = 0 =>
                    (deletes(native_heap, p) = 1 <=> ~Held(p))

\* A ScanlineOutputFile and the Header it was created from were both
\* dropped: the Header's native header was deleted once, the file's header
\* went with the file and was not deleted through header_ref
C26_Witness ==
    /\ values = {}
    /\ \E h \in Handles, f \in Handles, b \in Handles :
          /\ KindOf(h) = "Header" /\ native_heap.objects[h].inside = 0
          /\ deletes(native_heap, h) = 1
          /\ KindOf(f) = "OutputFile" /\ native_heap.objects[f].stream # 0
          /\ deletes(native_heap, f) = 1
          /\ KindOf(b) = "Header" /\ native_heap.objects[b].inside = f
          /\ deletes(native_heap, b) = 0
          /\ ~is_alive(native_heap, b)

\* The native file objects created on a stream adapter
StreamedFiles == {p \in Handles : native_heap.objects[p].stream # 0}

\* C27: destroying an InputFile or ScanlineOutputFile releases the native
\* file first and its stream adapter second, each exactly once; the stream
\* adapter is never released while the file object exists.
C27_FileBeforeStream ==
    \A f \in StreamedFiles :
        /\ deletes(native_heap, f) <= 1
        /\ deletes(native_heap, native_heap.objects[f].stream) <= 1
        /\ deletes(native_heap, native_heap.objects[f].stream) = 1 =>
              /\ deletes(native_heap, f) = 1
              /\ DeletedAt(f) < DeletedAt(native_heap.objects[f].stream)
        /\ ~Held(f) =>
              /\ deletes(native_heap, f) = 1
              /\ deletes(native_heap, native_heap.objects[f].stream) = 1

\* A ScanlineOutputFile was dropped: its file went first, its stream next
C27_Witness ==
    /\ last_native.op = "ScanlineOutputFile"
    /\ \E f \in StreamedFiles :
          /\ KindOf(f) = "OutputFile"
          /\ deletes(native_heap, f) = 1
          /\ DeletedAt(native_heap.objects[f].stream) = DeletedAt(f) + 1

\* The stream adapters
Streams == {p \in Handles : KindOf(p) \in {"OStream", "IStream"}}

\* C28: every stream adapter created by InputFile::new, InputFile::from_slice
\* or ScanlineOutputFile::new is released exactly once on every exit path:
\* when the file is dropped, and when the native file open fails and the
\* constructor returns an error; no adapter stays allocated without an
\* owner.
C28_StreamReleasedOnEveryPath ==
    \A s \in Streams :
        /\ deletes(native_heap, s) <= 1
        /\ (\A v \in values : v.stream # s) => deletes(native_heap, s) = 1

\* The messages the native library allocated for its failures
Messages == {p \in Handles : KindOf(p) = "message"}

\* C29: whenever a native call reports failure its message is copied into
\* the Error returned and then released exactly once, on every failing
\* path of the reads, the writes, the file constructors and
\* set_global_thread_count: no message stays allocated after the error is
\* returned.
C29_MessageReleased ==
    \A m \in Messages : deletes(native_heap, m) = 1

----------------------------------------------------------------------------
(* Properties of the StreamWriter *)

\* C30: the StreamWriter keeps track of the cursor: it is constructed with
\* the writer sought to byte 0 and cursor_pos = 0; after any sequence of
\* write and seekp callbacks, failing ones and ones failing after a partial
\* write included, tellp returns the position the writer is at; write and
\* seekp return 0 on success and 1 on failure, and a failing callback
\* leaves cursor_pos as it was.
C30_CursorTracksWriter ==
    /\ (last_callback.op = "new" /\ last_callback.io_ok) =>
          /\ writer_position = 0
          /\ stream_writer.cursor_pos = 0
    /\ stream_writer # NoStreamWriter => tellp(stream_writer) = writer_position
    /\ last_callback.op \in {"write", "seekp"} =>
          /\ last_callback.ret = (IF last_callback.io_ok THEN 0 ELSE 1)
          /\ ~last_callback.io_ok => stream_writer.cursor_pos = last_callback.pre
====
